---- MODULE Spec2Model ----
(***************************************************************************)
(* A model of riefproject/refficiency: the Transaction record              *)
(* (models/transaction.py), and the spreadsheet store with its dashboard   *)
(* recompute (services/gsheets.py), as driven by the record path of        *)
(* main.py.                                                                *)
(*                                                                         *)
(* Text is modelled as a sequence of one-character strings, so that        *)
(* formatting (str, f-strings) and parsing (strptime, float, split) are    *)
(* computed character by character as the code computes them.              *)
(* Python's None is the record None; an optional value is Some(v).         *)
(***************************************************************************)
EXTENDS Integers, Sequences, FiniteSets, TLC

VARIABLES
    connected,   \* self.gc and self.spreadsheet are both set
    worksheets,  \* the spreadsheet's monthly/other worksheets, in worksheets() order
    dashboard,   \* the "Dashboard" worksheet: None, or Some(its cells)
    last,        \* what the last operation was, and how it ended
    nFaults,     \* operations that met a backend fault so far
    fnArg,       \* argument of the pure function under check
    fnRet        \* its result

vars == <<connected, worksheets, dashboard, last, nFaults, fnArg, fnRet>>

-----------------------------------------------------------------------------
(* Text *)

None == [some |-> FALSE]
Some(v) == [some |-> TRUE, v |-> v]

DigitChars == <<"0", "1", "2", "3", "4", "5", "6", "7", "8", "9">>
Digit == {DigitChars[i] : i \in 1..10}
DigitValues == [c \in Digit |-> (CHOOSE i \in 1..10 : DigitChars[i] = c) - 1]
DigitVal(c) == DigitValues[c]
IsDigits(s) == \A i \in 1..Len(s) : s[i] \in Digit

\* str(n) for a non-negative integer
RECURSIVE NatToStr(_)
NatToStr(n) ==
    IF n < 10 THEN <<DigitChars[n + 1]>>
    ELSE NatToStr(n \div 10) \o <<DigitChars[(n % 10) + 1]>>

\* str(n) for an integer
IntToStr(n) == IF n < 0 THEN <<"-">> \o NatToStr(0 - n) ELSE NatToStr(n)

\* int(s) for a string of decimal digits
RECURSIVE DigitsToNat(_)
DigitsToNat(s) ==
    IF Len(s) = 0 THEN 0
    ELSE 10 * DigitsToNat(SubSeq(s, 1, Len(s) - 1)) + DigitVal(s[Len(s)])

\* s[i:] of Python (i counted from 0)
DropChars(s, i) == SubSeq(s, i + 1, Len(s))

\* The index of the first occurrence of c in s, 0 when there is none
FirstIndex(s, c) ==
    IF \E i \in 1..Len(s) : s[i] = c
    THEN CHOOSE i \in 1..Len(s) : s[i] = c /\ \A j \in 1..(i - 1) : s[j] # c
    ELSE 0

\* s.split(c)[0]
BeforeFirst(s, c) ==
    IF FirstIndex(s, c) = 0 THEN s ELSE SubSeq(s, 1, FirstIndex(s, c) - 1)

\* s.replace(c, '')
RECURSIVE RemoveChar(_, _)
RemoveChar(s, c) ==
    IF Len(s) = 0 THEN <<>>
    ELSE IF Head(s) = c THEN RemoveChar(Tail(s), c)
    ELSE <<Head(s)>> \o RemoveChar(Tail(s), c)

\* s.strip(), for the one whitespace character of the model
RECURSIVE StripLeft(_)
StripLeft(s) == IF Len(s) > 0 /\ Head(s) = " " THEN StripLeft(Tail(s)) ELSE s
RECURSIVE StripRight(_)
StripRight(s) ==
    IF Len(s) > 0 /\ s[Len(s)] = " " THEN StripRight(SubSeq(s, 1, Len(s) - 1)) ELSE s
Strip(s) == StripRight(StripLeft(s))

\* Values of a transaction_data dict: an int, a str or None
IntV(n) == [t |-> "int", n |-> n]
StrV(s) == [t |-> "str", s |-> s]
NoneV == [t |-> "none"]
\* str(value)
PyStr(v) == IF v.t = "int" THEN IntToStr(v.n) ELSE IF v.t = "str" THEN v.s
            ELSE <<"N", "o", "n", "e">>
\* bool(value)
Truthy(v) == IF v.t = "int" THEN v.n # 0 ELSE IF v.t = "str" THEN Len(v.s) > 0
             ELSE FALSE

-----------------------------------------------------------------------------
(* models/transaction.py *)

UpperChars == <<"A", "B", "C", "D", "E", "F", "G", "H", "I", "J", "K", "L", "M",
                "N", "O", "P", "Q", "R", "S", "T", "U", "V", "W", "X", "Y", "Z">>
LowerChars == <<"a", "b", "c", "d", "e", "f", "g", "h", "i", "j", "k", "l", "m",
                "n", "o", "p", "q", "r", "s", "t", "u", "v", "w", "x", "y", "z">>

LowerOf == [c \in {UpperChars[k] : k \in 1..26} |->
                LowerChars[CHOOSE k \in 1..26 : UpperChars[k] = c]]

\* str.lower(), on ASCII text
Lower(s) == [i \in 1..Len(s) |-> IF s[i] \in DOMAIN LowerOf THEN LowerOf[s[i]] ELSE s[i]]

J_pemasukan == <<"p", "e", "m", "a", "s", "u", "k", "a", "n">>
J_pengeluaran == <<"p", "e", "n", "g", "e", "l", "u", "a", "r", "a", "n">>

\* A variant of validate() that lets the amount 0 through
validate_allowing_zero(tx) ==
    /\ ~(Lower(tx.jenis) \notin {J_pemasukan, J_pengeluaran})
    /\ ~(tx.jumlah < 0)

\* Transaction.validate(): TRUE when it returns, FALSE when it raises ValueError
validate(tx) ==
    /\ ~(Lower(tx.jenis) \notin {J_pemasukan, J_pengeluaran})
    /\ ~(tx.jumlah <= 0)

\* The values of TransactionCategory, in the order of the enumeration
CategoryValues ==
    <<<<"s", "a", "l", "a", "r", "y">>,
      <<"f", "r", "e", "e", "l", "a", "n", "c", "e">>,
      <<"i", "n", "v", "e", "s", "t", "m", "e", "n", "t">>,
      <<"b", "u", "s", "i", "n", "e", "s", "s">>,
      <<"b", "o", "n", "u", "s">>,
      <<"o", "t", "h", "e", "r", "_", "i", "n", "c", "o", "m", "e">>,
      <<"f", "o", "o", "d", "_", "d", "i", "n", "i", "n", "g">>,
      <<"t", "r", "a", "n", "s", "p", "o", "r", "t", "a", "t", "i", "o", "n">>,
      <<"h", "e", "a", "l", "t", "h", "c", "a", "r", "e">>,
      <<"u", "t", "i", "l", "i", "t", "i", "e", "s">>,
      <<"e", "n", "t", "e", "r", "t", "a", "i", "n", "m", "e", "n", "t">>,
      <<"s", "h", "o", "p", "p", "i", "n", "g", "_", "c", "l", "o", "t", "h", "i", "n", "g">>,
      <<"e", "l", "e", "c", "t", "r", "o", "n", "i", "c", "s">>,
      <<"e", "d", "u", "c", "a", "t", "i", "o", "n">>,
      <<"i", "n", "s", "u", "r", "a", "n", "c", "e">>,
      <<"r", "e", "n", "t", "_", "m", "o", "r", "t", "g", "a", "g", "e">>,
      <<"g", "r", "o", "c", "e", "r", "i", "e", "s">>,
      <<"t", "r", "a", "v", "e", "l">>,
      <<"s", "u", "b", "s", "c", "r", "i", "p", "t", "i", "o", "n", "s">>,
      <<"o", "t", "h", "e", "r", "_", "e", "x", "p", "e", "n", "s", "e">>>>

\* TransactionCategory.get_category_mapping(): its items in insertion order
CategoryMapping ==
    <<[keyword |-> <<"m", "a", "k", "a", "n">>,
       category |-> <<"f", "o", "o", "d", "_", "d", "i", "n", "i", "n", "g">>],
      [keyword |-> <<"m", "a", "k", "a", "n", "a", "n">>,
       category |-> <<"f", "o", "o", "d", "_", "d", "i", "n", "i", "n", "g">>],
      [keyword |-> <<"r", "e", "s", "t", "o", "r", "a", "n">>,
       category |-> <<"f", "o", "o", "d", "_", "d", "i", "n", "i", "n", "g">>],
      [keyword |-> <<"c", "a", "f", "e">>,
       category |-> <<"f", "o", "o", "d", "_", "d", "i", "n", "i", "n", "g">>],
      [keyword |-> <<"s", "n", "a", "c", "k">>,
       category |-> <<"f", "o", "o", "d", "_", "d", "i", "n", "i", "n", "g">>],
      [keyword |-> <<"m", "i", "n", "u", "m", "a", "n">>,
       category |-> <<"f", "o", "o", "d", "_", "d", "i", "n", "i", "n", "g">>],
      [keyword |-> <<"b", "e", "n", "s", "i", "n">>,
       category |-> <<"t", "r", "a", "n", "s", "p", "o", "r", "t", "a", "t", "i", "o", "n">>],
      [keyword |-> <<"t", "r", "a", "n", "s", "p", "o", "r", "t", "a", "s", "i">>,
       category |-> <<"t", "r", "a", "n", "s", "p", "o", "r", "t", "a", "t", "i", "o", "n">>],
      [keyword |-> <<"o", "j", "e", "k">>,
       category |-> <<"t", "r", "a", "n", "s", "p", "o", "r", "t", "a", "t", "i", "o", "n">>],
      [keyword |-> <<"t", "a", "k", "s", "i">>,
       category |-> <<"t", "r", "a", "n", "s", "p", "o", "r", "t", "a", "t", "i", "o", "n">>],
      [keyword |-> <<"b", "u", "s">>,
       category |-> <<"t", "r", "a", "n", "s", "p", "o", "r", "t", "a", "t", "i", "o", "n">>],
      [keyword |-> <<"k", "e", "r", "e", "t", "a">>,
       category |-> <<"t", "r", "a", "n", "s", "p", "o", "r", "t", "a", "t", "i", "o", "n">>],
      [keyword |-> <<"p", "a", "r", "k", "i", "r">>,
       category |-> <<"t", "r", "a", "n", "s", "p", "o", "r", "t", "a", "t", "i", "o", "n">>],
      [keyword |-> <<"l", "a", "p", "t", "o", "p">>,
       category |-> <<"e", "l", "e", "c", "t", "r", "o", "n", "i", "c", "s">>],
      [keyword |-> <<"h", "p">>,
       category |-> <<"e", "l", "e", "c", "t", "r", "o", "n", "i", "c", "s">>],
      [keyword |-> <<"h", "a", "n", "d", "p", "h", "o", "n", "e">>,
       category |-> <<"e", "l", "e", "c", "t", "r", "o", "n", "i", "c", "s">>],
      [keyword |-> <<"k", "o", "m", "p", "u", "t", "e", "r">>,
       category |-> <<"e", "l", "e", "c", "t", "r", "o", "n", "i", "c", "s">>],
      [keyword |-> <<"t", "v">>,
       category |-> <<"e", "l", "e", "c", "t", "r", "o", "n", "i", "c", "s">>],
      [keyword |-> <<"e", "l", "e", "k", "t", "r", "o", "n", "i", "k">>,
       category |-> <<"e", "l", "e", "c", "t", "r", "o", "n", "i", "c", "s">>],
      [keyword |-> <<"b", "a", "j", "u">>,
       category |-> <<"s", "h", "o", "p", "p", "i", "n", "g", "_", "c", "l", "o", "t", "h", "i", "n", "g">>],
      [keyword |-> <<"c", "e", "l", "a", "n", "a">>,
       category |-> <<"s", "h", "o", "p", "p", "i", "n", "g", "_", "c", "l", "o", "t", "h", "i", "n", "g">>],
      [keyword |-> <<"s", "e", "p", "a", "t", "u">>,
       category |-> <<"s", "h", "o", "p", "p", "i", "n", "g", "_", "c", "l", "o", "t", "h", "i", "n", "g">>],
      [keyword |-> <<"t", "a", "s">>,
       category |-> <<"s", "h", "o", "p", "p", "i", "n", "g", "_", "c", "l", "o", "t", "h", "i", "n", "g">>],
      [keyword |-> <<"p", "a", "k", "a", "i", "a", "n">>,
       category |-> <<"s", "h", "o", "p", "p", "i", "n", "g", "_", "c", "l", "o", "t", "h", "i", "n", "g">>],
      [keyword |-> <<"g", "a", "j", "i">>,
       category |-> <<"s", "a", "l", "a", "r", "y">>],
      [keyword |-> <<"f", "r", "e", "e", "l", "a", "n", "c", "e">>,
       category |-> <<"f", "r", "e", "e", "l", "a", "n", "c", "e">>],
      [keyword |-> <<"b", "o", "n", "u", "s">>,
       category |-> <<"b", "o", "n", "u", "s">>],
      [keyword |-> <<"i", "n", "v", "e", "s", "t", "a", "s", "i">>,
       category |-> <<"i", "n", "v", "e", "s", "t", "m", "e", "n", "t">>]>>

C_other_expense == <<"o", "t", "h", "e", "r", "_", "e", "x", "p", "e", "n", "s", "e">>

\* "sub in text", for a sub that is not empty
Contains(text, sub) ==
    \E i \in 0..(Len(text) - Len(sub)) : SubSeq(text, i + 1, i + Len(sub)) = sub

\* A variant of categorize that looks for the keywords in the text as given
categorize_case_sensitive(text) ==
    LET First(hits) ==
            IF hits = {} THEN C_other_expense
            ELSE CategoryMapping[CHOOSE i \in hits : \A j \in hits : i <= j].category
    IN  First({i \in 1..Len(CategoryMapping) :
                    Contains(text, CategoryMapping[i].keyword)})

\* TransactionCategory.categorize(text).value: the category of the first keyword
\* of the mapping found in the lowered text
categorize(text) ==
    LET First(hits) ==
            IF hits = {} THEN C_other_expense
            ELSE CategoryMapping[CHOOSE i \in hits : \A j \in hits : i <= j].category
        Hits(text_lower) ==
            {i \in 1..Len(CategoryMapping) :
                Contains(text_lower, CategoryMapping[i].keyword)}
    IN  First(Hits(Lower(text)))

\* Transaction._validate_category(kategori), kategori a parsed JSON value
_validate_category(kategori) ==
    IF kategori.t = "str"
    THEN IF \E i \in 1..Len(CategoryValues) : CategoryValues[i] = kategori.s
         THEN kategori.s
         ELSE categorize(kategori.s)
    ELSE C_other_expense

K_Date == <<"D", "a", "t", "e">>
K_Category == <<"C", "a", "t", "e", "g", "o", "r", "y">>
K_Description == <<"D", "e", "s", "c", "r", "i", "p", "t", "i", "o", "n">>
K_Income == <<"I", "n", "c", "o", "m", "e">>
K_Expenditure == <<"E", "x", "p", "e", "n", "d", "i", "t", "u", "r", "e">>

\* Transaction.to_sheet_data(): the flat dict handed to the store, a function
\* from its keys to its values
to_sheet_data(tx) ==
    LET pemasukan == IF Lower(tx.jenis) = J_pemasukan THEN IntV(tx.jumlah) ELSE StrV(<<>>)
        pengeluaran == IF Lower(tx.jenis) = J_pengeluaran THEN IntV(tx.jumlah) ELSE StrV(<<>>)
    IN  (K_Date :> StrV(tx.tanggal)) @@ (K_Category :> StrV(tx.kategori))
        @@ (K_Description :> StrV(tx.deskripsi))
        @@ (K_Income :> pemasukan) @@ (K_Expenditure :> pengeluaran)

-----------------------------------------------------------------------------
(* services/gsheets.py: partition names *)

\* Length of the match of strptime's %m pattern, 1[0-2]|0[1-9]|[1-9], at s[i..]
MatchMonth(s, i) ==
    LET c1 == IF i <= Len(s) THEN s[i] ELSE "$"
        c2 == IF i + 1 <= Len(s) THEN s[i + 1] ELSE "$"
    IN  IF c1 = "1" /\ c2 \in {"0", "1", "2"} THEN 2
        ELSE IF c1 = "0" /\ c2 \in (Digit \ {"0"}) THEN 2
        ELSE IF c1 \in (Digit \ {"0"}) THEN 1
        ELSE 0

\* Length of the match of strptime's %d pattern,
\* 3[0-1]|[1-2]\d|0[1-9]|[1-9]| [1-9], at s[i..]
MatchDay(s, i) ==
    LET c1 == IF i <= Len(s) THEN s[i] ELSE "$"
        c2 == IF i + 1 <= Len(s) THEN s[i + 1] ELSE "$"
    IN  IF c1 = "3" /\ c2 \in {"0", "1"} THEN 2
        ELSE IF c1 \in {"1", "2"} /\ c2 \in Digit THEN 2
        ELSE IF c1 = "0" /\ c2 \in (Digit \ {"0"}) THEN 2
        ELSE IF c1 \in (Digit \ {"0"}) THEN 1
        ELSE IF c1 = " " /\ c2 \in (Digit \ {"0"}) THEN 2
        ELSE 0

IsLeap(y) == (y % 4 = 0) /\ ((y % 100 # 0) \/ (y % 400 = 0))
DaysInMonth(y, m) ==
    IF m = 2 THEN (IF IsLeap(y) THEN 29 ELSE 28)
    ELSE IF m \in {4, 6, 9, 11} THEN 30 ELSE 31

\* datetime.strptime(s, "%Y-%m-%d"): Some([year, month, day]), or None when it
\* raises ValueError (no match, unconverted data, or no such calendar day)
strptime_ymd(s) ==
    IF ~(Len(s) >= 5 /\ IsDigits(SubSeq(s, 1, 4)) /\ s[5] = "-") THEN None
    ELSE LET ml == MatchMonth(s, 6)
         IN  IF ml = 0 \/ ~(6 + ml <= Len(s) /\ s[6 + ml] = "-") THEN None
             ELSE LET dl == MatchDay(s, 7 + ml)
                      y == DigitsToNat(SubSeq(s, 1, 4))
                      m == DigitsToNat(SubSeq(s, 6, 5 + ml))
                      d == DigitsToNat(StripLeft(SubSeq(s, 7 + ml, 6 + ml + dl)))
                  IN  IF dl = 0 \/ 6 + ml + dl # Len(s) THEN None
                      ELSE IF y < 1 \/ d > DaysInMonth(y, m) THEN None
                      ELSE Some([year |-> y, month |-> m, day |-> d])

\* A variant of YearSuffix that keeps all the digits of the year
YearSuffix_whole_year(y) == NatToStr(y)

\* The slice of str(date_obj.year) kept as the year part of the name
YearSuffix(y) == DropChars(NatToStr(y), 2)

\* A variant of get_sheet_name_from_date that files a date it cannot read under
\* the month "6/25" instead of returning None
get_sheet_name_from_date_defaulting(date_str) ==
    LET Name(date_obj) ==
            IF date_obj.some
            THEN Some(NatToStr(date_obj.v.month) \o <<"/">>
                      \o YearSuffix(date_obj.v.year))
            ELSE Some(<<"6", "/", "2", "5">>)
    IN  Name(strptime_ymd(date_str))

\* GoogleSheetsService.get_sheet_name_from_date
get_sheet_name_from_date(date_str) ==
    LET Name(date_obj) ==
            IF date_obj.some
            THEN Some(NatToStr(date_obj.v.month) \o <<"/">>
                      \o YearSuffix(date_obj.v.year))
            ELSE None
    IN  Name(strptime_ymd(date_str))

-----------------------------------------------------------------------------
(* services/gsheets.py: worksheets *)

\* A worksheet is [title, rows]; a row is a sequence of cells; a cell is text.
\* list.index(x) + 1, 0 when x is not in the list
IndexOf(seq, x) ==
    IF \E i \in 1..Len(seq) : seq[i] = x
    THEN CHOOSE i \in 1..Len(seq) : seq[i] = x /\ \A j \in 1..(i - 1) : seq[j] # x
    ELSE 0

InSeq(seq, x) == IndexOf(seq, x) # 0

K_Tanggal == <<"T", "a", "n", "g", "g", "a", "l">>
K_Kategori == <<"K", "a", "t", "e", "g", "o", "r", "i">>
K_Deskripsi == <<"D", "e", "s", "k", "r", "i", "p", "s", "i">>
K_Pemasukan == <<"P", "e", "m", "a", "s", "u", "k", "a", "n">>
K_Pengeluaran == <<"P", "e", "n", "g", "e", "l", "u", "a", "r", "a", "n">>

\* The header row written to a new monthly sheet
headers == <<K_Tanggal, K_Kategori, K_Deskripsi, K_Pemasukan, K_Pengeluaran>>

\* spreadsheet.worksheet(title): the position of the sheet, 0 for WorksheetNotFound
SheetIndex(ws, title) ==
    IF \E i \in 1..Len(ws) : ws[i].title = title
    THEN CHOOSE i \in 1..Len(ws) : ws[i].title = title
    ELSE 0

IsBlankRow(row) == \A i \in 1..Len(row) : row[i] = <<>>

\* A variant of append_row that writes over the last data row of a sheet that has
\* one
append_row_over_last_row(rows, row) ==
    IF IsBlankRow(row) THEN rows
    ELSE IF Len(rows) <= 1 THEN Append(rows, row)
    ELSE [rows EXCEPT ![Len(rows)] = row]

\* worksheet.append_row(row): the row lands after the last row of the table;
\* a row of blanks only leaves the table as it was
append_row(rows, row) == IF IsBlankRow(row) THEN rows ELSE Append(rows, row)

\* worksheet.row_values(1): the first row, [] for an empty sheet
row_values_1(rows) == IF Len(rows) = 0 THEN <<>> ELSE rows[1]

\* dict.get(key), None when the key is missing
DictGet(d, key) == IF key \in DOMAIN d THEN d[key] ELSE NoneV

\* The cell add_transaction stores for one key of transaction_data
StoredCell(key, value) ==
    IF value.t = "none" THEN <<>>
    ELSE IF key = K_Tanggal /\ Truthy(value) /\ InSeq(PyStr(value), " ")
         THEN BeforeFirst(PyStr(value), " ")
         ELSE PyStr(value)

\* A variant of new_row that fills the cells by position, in the order of the
\* default header row, whatever the sheet's header row is
new_row_by_position(hdr, transaction_data) ==
    [i \in 1..Len(hdr) |->
        IF i <= Len(headers) /\ headers[i] \in DOMAIN transaction_data
        THEN StoredCell(headers[i], transaction_data[headers[i]])
        ELSE <<>>]

\* add_transaction's new_row: one cell per header, filled by key name
new_row(hdr, transaction_data) ==
    [i \in 1..Len(hdr) |->
        IF hdr[i] \in DOMAIN transaction_data /\ IndexOf(hdr, hdr[i]) = i
        THEN StoredCell(hdr[i], transaction_data[hdr[i]])
        ELSE <<>>]

-----------------------------------------------------------------------------
(* services/gsheets.py: per-sheet summary *)

\* float(s): Some(number) or None for ValueError. The text of the model is made of
\* digits, ",", " ", "-" and letters that spell no float literal.
PyFloat(s) ==
    LET t == Strip(s)
        body == IF Len(t) > 0 /\ t[1] = "-" THEN Tail(t) ELSE t
    IN  IF Len(body) > 0 /\ IsDigits(body)
        THEN Some(IF Len(t) > 0 /\ t[1] = "-" THEN 0 - DigitsToNat(body)
                  ELSE DigitsToNat(body))
        ELSE None

\* int(s): Some(n), or None for ValueError
PyInt(s) ==
    LET t == Strip(s)
        signed == Len(t) > 0 /\ t[1] \in {"-", "+"}
        body == IF signed THEN Tail(t) ELSE t
    IN  IF Len(body) > 0 /\ IsDigits(body)
        THEN Some(IF signed /\ t[1] = "-" THEN 0 - DigitsToNat(body)
                  ELSE DigitsToNat(body))
        ELSE None

\* The value get_all_records() hands over for one cell: gspread turns a cell that
\* reads as an integer into an int and leaves other text (and the blank) as str
Numericise(cell) ==
    LET Cast(n) == IF n.some THEN IntV(n.v) ELSE StrV(cell)
    IN  Cast(PyInt(cell))

\* A variant of CellParse that leaves the thousands separators in
CellParse_keeping_separators(cell) ==
    LET Amount(val) ==
            IF Truthy(val) /\ Len(Strip(PyStr(val))) > 0 THEN PyFloat(PyStr(val))
            ELSE None
    IN  Amount(Numericise(cell))

\* What the summary loop makes of one amount cell: Some(float(str(val).replace(',',
\* ''))), or None when the guard "val and str(val).strip()" fails or float raises
CellParse(cell) ==
    LET Amount(val) ==
            IF Truthy(val) /\ Len(Strip(PyStr(val))) > 0
            THEN PyFloat(RemoveChar(PyStr(val), ","))
            ELSE None
    IN  Amount(Numericise(cell))

\* get_all_records()'s row.get(key, default): the cell under the header named key
RecordGet(hdr, row, key, default) ==
    IF InSeq(hdr, key)
    THEN (IF IndexOf(hdr, key) <= Len(row) THEN row[IndexOf(hdr, key)] ELSE <<>>)
    ELSE default

Uncategorized == <<"U", "n", "c", "a", "t", "e", "g", "o", "r", "i", "z", "e", "d">>

\* A variant of DictAdd that stores the amount in place of the sum
DictAdd_overwriting(categories, category, amount) ==
    IF \E i \in 1..Len(categories) : categories[i].category = category
    THEN [i \in 1..Len(categories) |->
            IF categories[i].category = category
            THEN [category |-> category, amount |-> amount]
            ELSE categories[i]]
    ELSE Append(categories, [category |-> category, amount |-> amount])

\* categories[category] = categories.get(category, 0.0) + amount, on a dict kept
\* as the sequence of its items in insertion order
DictAdd(categories, category, amount) ==
    IF \E i \in 1..Len(categories) : categories[i].category = category
    THEN [i \in 1..Len(categories) |->
            IF categories[i].category = category
            THEN [category |-> category, amount |-> categories[i].amount + amount]
            ELSE categories[i]]
    ELSE Append(categories, [category |-> category, amount |-> amount])

ZeroSummary ==
    [total_income |-> 0, total_expenditure |-> 0, net_difference |-> 0,
     categories |-> <<>>]

\* The loop of _get_sheet_summary over the records hdr/rows[i..]
RECURSIVE SummaryLoop(_, _, _, _)
SummaryLoop(hdr, rows, i, acc) ==
    IF i > Len(rows) THEN acc
    ELSE LET Count(income, amount, category) ==
                [total_income |->
                    acc.total_income + (IF income.some THEN income.v ELSE 0),
                 total_expenditure |->
                    acc.total_expenditure + (IF amount.some THEN amount.v ELSE 0),
                 net_difference |-> 0,
                 categories |-> IF amount.some
                                THEN DictAdd(acc.categories, category, amount.v)
                                ELSE acc.categories]
         IN  SummaryLoop(hdr, rows, i + 1,
                Count(CellParse(RecordGet(hdr, rows[i], K_Pemasukan, <<>>)),
                      CellParse(RecordGet(hdr, rows[i], K_Pengeluaran, <<>>)),
                      RecordGet(hdr, rows[i], K_Kategori, Uncategorized)))

\* GoogleSheetsService._get_sheet_summary on the rows of one worksheet
\* (row 1 is the header row of get_all_records)
_get_sheet_summary(rows) ==
    IF Len(rows) = 0 THEN ZeroSummary
    ELSE LET Net(s) == [s EXCEPT !.net_difference = s.total_income - s.total_expenditure]
         IN  Net(SummaryLoop(rows[1], rows, 2, ZeroSummary))

-----------------------------------------------------------------------------
(* services/gsheets.py: discovery of the monthly sheets *)

CountChar(s, c) == Cardinality({i \in 1..Len(s) : s[i] = c})

\* What get_monthly_sheets makes of one sheet title: Some([month, year]), or None
\* when the sheet is passed over (no '/', or the unpacking or an int() raises)
ParseSheetName(sheet_name) ==
    IF ~InSeq(sheet_name, "/") THEN None
    ELSE IF CountChar(sheet_name, "/") # 1 THEN None
    ELSE LET month_str == BeforeFirst(sheet_name, "/")
             year_str == DropChars(sheet_name, FirstIndex(sheet_name, "/"))
             Key(month_num, year_num) ==
                IF month_num.some /\ year_num.some
                THEN Some([month |-> month_num.v, year |-> year_num.v])
                ELSE None
         IN  Key(PyInt(month_str), PyInt(<<"2", "0">> \o year_str))

RECURSIVE MonthlyLoop(_, _, _)
MonthlyLoop(ws, i, monthly_data) ==
    IF i > Len(ws) THEN monthly_data
    ELSE LET Entered(parsed) ==
                IF parsed.some
                THEN Append(monthly_data,
                        [sheet_name |-> ws[i].title,
                         month |-> parsed.v.month,
                         year |-> parsed.v.year,
                         data |-> _get_sheet_summary(ws[i].rows)])
                ELSE monthly_data
         IN  MonthlyLoop(ws, i + 1, Entered(ParseSheetName(ws[i].title)))

\* GoogleSheetsService.get_monthly_sheets: the dict monthly_data as the sequence
\* of its values in insertion order (sheet titles are unique)
get_monthly_sheets(ws) == MonthlyLoop(ws, 1, <<>>)

-----------------------------------------------------------------------------
(* services/gsheets.py: the dashboard *)

\* datetime.now().year
CurrentYear == 2025

Blank == StrV(<<>>)

\* str(datetime.now().year), the year selector written at creation
DefaultC1 == NatToStr(CurrentYear)

\* The derived regions of a dashboard that was never recomputed
BlankRegions ==
    [table |-> [m \in 1..12 |-> <<Blank, Blank, Blank>>],
     F3 |-> Blank, F5 |-> Blank, F7 |-> Blank,
     top_annual |-> [i \in 1..5 |-> <<Blank, Blank>>],
     top_monthly |-> [i \in 1..5 |-> <<Blank, Blank>>]]

\* create_dashboard_sheet + _setup_dashboard_layout, run to the end
NewDashboard ==
    [layout |-> TRUE, C1 |-> DefaultC1, C24 |-> ""] @@ BlankRegions

\* The sheet when _setup_dashboard_layout raises at its first write
BareDashboard ==
    [layout |-> FALSE, C1 |-> <<>>, C24 |-> ""] @@ BlankRegions

\* A variant of TargetYear that takes the current year whatever C1 holds
TargetYear_ignoring_selector(c1) == CurrentYear

\* target_year of the three sub-steps, from the text of cell C1
TargetYear(c1) == IF Len(c1) > 0 /\ IsDigits(c1) THEN DigitsToNat(c1) ELSE CurrentYear

MonthNames == <<"January", "February", "March", "April", "May", "June", "July",
                "August", "September", "October", "November", "December">>

\* strptime's %B matches the month names without regard to letter case
FoldMonthCase(name) == IF name = "june" THEN "June" ELSE name

\* datetime.strptime(name, "%B").month: Some(month), or None for ValueError
MonthFromName(name) ==
    IF \E i \in 1..12 : MonthNames[i] = FoldMonthCase(name)
    THEN Some(CHOOSE i \in 1..12 : MonthNames[i] = FoldMonthCase(name))
    ELSE None

\* The first entry of monthly_data for (month, year): Some(entry.data) or None
FindMonth(monthly_data, month_num, target_year) ==
    LET hits == {i \in 1..Len(monthly_data) :
                    /\ monthly_data[i].month = month_num
                    /\ monthly_data[i].year = target_year}
    IN  IF hits = {} THEN None
        ELSE Some(monthly_data[CHOOSE i \in hits : \A j \in hits : i <= j].data)

\* The payload _update_monthly_summary writes to B3:D14
MonthlyPayload(monthly_data, target_year) ==
    [month_num \in 1..12 |->
        LET found_data == FindMonth(monthly_data, month_num, target_year)
        IN  IF found_data.some
            THEN <<IntV(found_data.v.total_income),
                   IntV(found_data.v.total_expenditure),
                   IntV(found_data.v.net_difference)>>
            ELSE <<Blank, Blank, Blank>>]

RECURSIVE AnnualLoop(_, _, _, _)
AnnualLoop(monthly_data, target_year, i, acc) ==
    IF i > Len(monthly_data) THEN acc
    ELSE AnnualLoop(monthly_data, target_year, i + 1,
            IF monthly_data[i].year = target_year
            THEN [income |-> acc.income + monthly_data[i].data.total_income,
                  expenditure |-> acc.expenditure + monthly_data[i].data.total_expenditure]
            ELSE acc)

\* The totals _update_annual_totals writes to F3, F5 and F7
AnnualTotals(monthly_data, target_year) ==
    LET t == AnnualLoop(monthly_data, target_year, 1, [income |-> 0, expenditure |-> 0])
    IN  [F3 |-> IntV(t.income), F5 |-> IntV(t.expenditure),
         F7 |-> IntV(t.income - t.expenditure)]

RECURSIVE MergeCategories(_, _, _)
MergeCategories(all, categories, i) ==
    IF i > Len(categories) THEN all
    ELSE MergeCategories(DictAdd(all, categories[i].category, categories[i].amount),
                         categories, i + 1)

RECURSIVE UnionLoop(_, _, _, _)
UnionLoop(monthly_data, target_year, i, all) ==
    IF i > Len(monthly_data) THEN all
    ELSE UnionLoop(monthly_data, target_year, i + 1,
            IF monthly_data[i].year = target_year
            THEN MergeCategories(all, monthly_data[i].data.categories, 1)
            ELSE all)

\* all_categories_annual of _update_top_expenditures, in insertion order
AllCategoriesAnnual(monthly_data, target_year) ==
    UnionLoop(monthly_data, target_year, 1, <<>>)

\* A variant of InsertDesc that puts x before the items it ties with
InsertDesc_ties_reversed(sorted, x) ==
    LET k == Cardinality({i \in 1..Len(sorted) : sorted[i].amount > x.amount})
    IN  SubSeq(sorted, 1, k) \o <<x>> \o SubSeq(sorted, k + 1, Len(sorted))

\* Where a stable descending sort puts item x, which came after all of sorted
InsertDesc(sorted, x) ==
    LET k == Cardinality({i \in 1..Len(sorted) : sorted[i].amount >= x.amount})
    IN  SubSeq(sorted, 1, k) \o <<x>> \o SubSeq(sorted, k + 1, Len(sorted))

RECURSIVE SortLoop(_, _, _)
SortLoop(items, i, sorted) ==
    IF i > Len(items) THEN sorted
    ELSE SortLoop(items, i + 1, InsertDesc(sorted, items[i]))

\* sorted(items, key=amount, reverse=True): descending, ties in their first order
SortedDesc(items) == SortLoop(items, 1, <<>>)

TopN == 5

\* sorted(...)[:5] laid over a payload of five blank rows
TopPayload(categories) ==
    LET top == SubSeq(SortedDesc(categories), 1,
                      IF Len(categories) < TopN THEN Len(categories) ELSE TopN)
    IN  [i \in 1..TopN |->
            IF i <= Len(top) THEN <<StrV(top[i].category), IntV(top[i].amount)>>
            ELSE <<Blank, Blank>>]

\* monthly_categories of _update_top_expenditures for the month named in C24
MonthlyCategories(monthly_data, c24, target_year) ==
    IF c24 # "" /\ MonthFromName(c24).some
    THEN LET found == FindMonth(monthly_data, MonthFromName(c24).v, target_year)
         IN  IF found.some THEN found.v.categories ELSE <<>>
    ELSE <<>>

\* The faults one call of update_dashboard_data can meet: a backend call that raises
RecomputeFaults ==
    {"dash_get", "list", "monthly", "annual", "top_annual", "top_monthly"}

\* A variant of RecomputeCells that adds the year's income to what F3 already
\* holds instead of overwriting the cell
RecomputeCells_adding_to_totals(d, ws, fault) ==
    LET held == IF d.F3.t = "int" THEN d.F3.n ELSE 0
        Written(monthly_data, target_year, a) ==
            [d EXCEPT !.table = MonthlyPayload(monthly_data, target_year),
                      !.F3 = IntV(held + a.F3.n), !.F5 = a.F5, !.F7 = a.F7,
                      !.top_annual =
                          TopPayload(AllCategoriesAnnual(monthly_data, target_year)),
                      !.top_monthly =
                          TopPayload(MonthlyCategories(monthly_data, d.C24, target_year))]
        Read(monthly_data, target_year) ==
            Written(monthly_data, target_year, AnnualTotals(monthly_data, target_year))
    IN  Read(get_monthly_sheets(ws), TargetYear(d.C1))

\* update_dashboard_data's try block on the dashboard cells d: the cells after it
RecomputeCells(d, ws, fault) ==
    LET Written(monthly_data, target_year, a) ==
            [d EXCEPT
                !.table = IF fault = "monthly" THEN @
                          ELSE MonthlyPayload(monthly_data, target_year),
                !.F3 = IF fault = "annual" THEN @ ELSE a.F3,
                !.F5 = IF fault = "annual" THEN @ ELSE a.F5,
                !.F7 = IF fault = "annual" THEN @ ELSE a.F7,
                !.top_annual =
                    IF fault = "top_annual" THEN @
                    ELSE TopPayload(AllCategoriesAnnual(monthly_data, target_year)),
                !.top_monthly =
                    IF fault \in {"top_annual", "top_monthly"} THEN @
                    ELSE TopPayload(MonthlyCategories(monthly_data, d.C24, target_year))]
        Read(monthly_data, target_year) ==
            Written(monthly_data, target_year, AnnualTotals(monthly_data, target_year))
    IN  Read(IF fault = "list" THEN <<>> ELSE get_monthly_sheets(ws), TargetYear(d.C1))

\* A variant of update_dashboard_data that writes the year it used back to C1
update_dashboard_data_stamping_year(dash, ws, fault) ==
    IF ~dash.some \/ fault = "dash_get"
    THEN [dashboard |-> dash, ret |-> FALSE]
    ELSE [dashboard |-> Some([RecomputeCells(dash.v, ws, fault)
                                EXCEPT !.C1 = NatToStr(TargetYear(dash.v.C1))]),
          ret |-> TRUE]

\* update_dashboard_data after its connection guard: the dashboard after the call
\* and the value returned
update_dashboard_data(dash, ws, fault) ==
    IF ~dash.some \/ fault = "dash_get"
    THEN [dashboard |-> dash, ret |-> FALSE]
    ELSE [dashboard |-> Some(RecomputeCells(dash.v, ws, fault)), ret |-> TRUE]

-----------------------------------------------------------------------------
(* services/gsheets.py: connection, get-or-create, add_transaction *)

\* The backend calls of one operation that can raise; an operation meets at most
\* one fault
Faults ==
    {"connect", "dash_add", "dash_layout", "lookup", "header", "append_row"}
    \cup RecomputeFaults

\* ensure_dashboard_exists / create_dashboard_sheet on a live connection
ensure_dashboard_exists(dash, fault) ==
    IF dash.some THEN dash
    ELSE IF fault = "dash_add" THEN None
    ELSE IF fault = "dash_layout" THEN Some(BareDashboard)
    ELSE Some(NewDashboard)

\* A variant of init_connection that creates the Dashboard sheet before the
\* connection attempt is known to have failed
init_connection_creating_dashboard_first(dash, fault) ==
    IF fault = "connect"
    THEN [connected |-> FALSE, dashboard |-> ensure_dashboard_exists(dash, "none"),
          ret |-> FALSE]
    ELSE [connected |-> TRUE, dashboard |-> ensure_dashboard_exists(dash, fault),
          ret |-> TRUE]

\* init_connection: the handles, the dashboard and the value returned
init_connection(dash, fault) ==
    IF fault = "connect" THEN [connected |-> FALSE, dashboard |-> dash, ret |-> FALSE]
    ELSE [connected |-> TRUE, dashboard |-> ensure_dashboard_exists(dash, fault),
          ret |-> TRUE]

\* A variant of ensure_connection that reports the handles it finds and never
\* calls init_connection
ensure_connection_without_retry(conn, dash, fault) ==
    [connected |-> conn, dashboard |-> dash, ret |-> conn]

\* ensure_connection
ensure_connection(conn, dash, fault) ==
    IF ~conn THEN init_connection(dash, fault)
    ELSE [connected |-> TRUE, dashboard |-> dash, ret |-> TRUE]

\* A variant of get_or_create_sheet that appends the header row to a sheet it
\* finds as well as to one it creates
get_or_create_sheet_rewriting_header(ws, sheet_name, conn, fault) ==
    IF ~conn \/ fault = "lookup" THEN [worksheets |-> ws, ok |-> FALSE]
    ELSE IF SheetIndex(ws, sheet_name) # 0
         THEN [worksheets |-> [ws EXCEPT ![SheetIndex(ws, sheet_name)].rows =
                                            append_row(@, headers)],
               ok |-> TRUE]
    ELSE [worksheets |-> Append(ws, [title |-> sheet_name,
                                     rows |-> append_row(<<>>, headers)]),
          ok |-> TRUE]

\* get_or_create_sheet(sheet_name): the worksheets after the call, and whether it
\* returned a worksheet (ok) or raised
get_or_create_sheet(ws, sheet_name, conn, fault) ==
    IF ~conn \/ fault = "lookup" THEN [worksheets |-> ws, ok |-> FALSE]
    ELSE IF SheetIndex(ws, sheet_name) # 0 THEN [worksheets |-> ws, ok |-> TRUE]
    ELSE IF fault = "header"
         THEN [worksheets |-> Append(ws, [title |-> sheet_name, rows |-> <<>>]),
               ok |-> FALSE]
         ELSE [worksheets |-> Append(ws, [title |-> sheet_name,
                                         rows |-> append_row(<<>>, headers)]),
               ok |-> TRUE]

\* add_transaction from the header check on (lines 166-193), on the sheet found
\* or created at position SheetIndex(ws, sheet_name)
AppendAndRefresh(ws, sheet_name, transaction_data, dash, fault) ==
    LET i == SheetIndex(ws, sheet_name)
        found == row_values_1(ws[i].rows)
        hdr == IF Len(found) = 0 THEN headers ELSE found
        rows1 == IF Len(found) = 0 THEN append_row(ws[i].rows, headers) ELSE ws[i].rows
        ws1 == [ws EXCEPT ![i].rows = rows1]
        Refreshed(ws2, u) ==
            [worksheets |-> ws2, dashboard |-> u.dashboard, result |-> "True",
             refreshed |-> u.ret]
        Appended(ws2) == Refreshed(ws2, update_dashboard_data(dash, ws2, fault))
    IN  IF fault = "append_row"
        THEN [worksheets |-> ws1, dashboard |-> dash, result |-> "raised",
              refreshed |-> FALSE]
        ELSE Appended([ws EXCEPT ![i].rows =
                            append_row(rows1, new_row(hdr, transaction_data))])

\* add_transaction(transaction_data): the state after the call and its outcome,
\* "True" or "raised"
add_transaction(transaction_data, conn, ws, dash, fault) ==
    LET c == ensure_connection(conn, dash, fault)
        date_value == DictGet(transaction_data, K_Tanggal)
        raised == [connected |-> c.connected, worksheets |-> ws,
                   dashboard |-> c.dashboard, result |-> "raised", refreshed |-> FALSE]
        Filed(sheet_name) ==
            IF ~sheet_name.some \/ Len(sheet_name.v) = 0 THEN raised
            ELSE LET g == get_or_create_sheet(ws, sheet_name.v, c.connected, fault)
                 IN  IF ~g.ok THEN [raised EXCEPT !.worksheets = g.worksheets]
                     ELSE [connected |-> c.connected]
                          @@ AppendAndRefresh(g.worksheets, sheet_name.v,
                                              transaction_data, c.dashboard, fault)
    IN  IF ~c.ret THEN raised
        ELSE IF ~Truthy(date_value) THEN raised
        ELSE Filed(get_sheet_name_from_date(BeforeFirst(PyStr(date_value), " ")))

-----------------------------------------------------------------------------
(* handlers/laporan.py: reports *)

\* datetime.now().month
CurrentMonth == 6

P_bulanan == <<"b", "u", "l", "a", "n", "a", "n">>
P_tahunan == <<"t", "a", "h", "u", "n", "a", "n">>

\* An optional int argument "x or default": None and 0 give the default
OrDefault(x, default) == IF x.t = "int" /\ x.n # 0 THEN x.n ELSE default

\* Whether f"{value:,.0f}" raises: a cell get_all_records() left as text
FormatRaises(cell) == Numericise(cell).t # "int"

\* The line of one record in the list of recent transactions raises
RecentLineRaises(hdr, row) ==
    LET Line(pemasukan, pengeluaran) ==
            IF Truthy(Numericise(pemasukan)) THEN FormatRaises(pemasukan)
            ELSE IF Truthy(Numericise(pengeluaran)) THEN FormatRaises(pengeluaran)
            ELSE FALSE
    IN  Line(RecordGet(hdr, row, K_Pemasukan, <<>>),
             RecordGet(hdr, row, K_Pengeluaran, <<>>))

\* LaporanService._generate_monthly_report: the renderer and the kind of text it
\* returns
_generate_monthly_report(year, month, ws) ==
    LET target_month == OrDefault(month, CurrentMonth)
        sheet_name == NatToStr(target_month) \o <<"/">> \o YearSuffix(year)
        Rendered(rows) ==
            IF \E i \in 2..Len(rows) :
                    /\ i > Len(rows) - 5
                    /\ RecentLineRaises(rows[1], rows[i])
            THEN "failed" ELSE "report"
    IN  [renderer |-> "monthly",
         kind |-> IF ~(1 <= target_month /\ target_month <= 12) THEN "invalid_month"
                  ELSE IF SheetIndex(ws, sheet_name) = 0 THEN "no_data"
                  ELSE Rendered(ws[SheetIndex(ws, sheet_name)].rows)]

\* LaporanService._generate_annual_report
_generate_annual_report(year, ws) ==
    LET Rendered(monthly_data) ==
            IF \E i \in 1..Len(monthly_data) : monthly_data[i].year = year
            THEN "report" ELSE "no_data"
    IN  [renderer |-> "annual", kind |-> Rendered(get_monthly_sheets(ws))]

\* LaporanService.generate_report(period, year, month), given what
\* ensure_connection() returned (ok) and the worksheets it reads
generate_report(period, year, month, ok, ws) ==
    IF ~ok THEN [renderer |-> "none", kind |-> "no_connection"]
    ELSE IF period = StrV(P_bulanan)
         THEN _generate_monthly_report(OrDefault(year, CurrentYear), month, ws)
    ELSE IF period = StrV(P_tahunan)
         THEN _generate_annual_report(OrDefault(year, CurrentYear), ws)
    ELSE [renderer |-> "none", kind |-> "unrecognized"]

-----------------------------------------------------------------------------
(* main.py: handle_message *)

E_period == <<"p", "e", "r", "i", "o", "d">>
E_year == <<"y", "e", "a", "r">>
E_month == <<"m", "o", "n", "t", "h">>
E_transaction_type == <<"t", "r", "a", "n", "s", "a", "c", "t", "i", "o", "n", "_",
                        "t", "y", "p", "e">>
E_category == <<"c", "a", "t", "e", "g", "o", "r", "y">>
E_amount == <<"a", "m", "o", "u", "n", "t">>
E_description == <<"d", "e", "s", "c", "r", "i", "p", "t", "i", "o", "n">>
E_date == <<"d", "a", "t", "e">>

T_income == <<"i", "n", "c", "o", "m", "e">>

\* datetime.now().strftime('%Y-%m-%d')
Today == <<"2", "0", "2", "5", "-", "0", "6", "-", "1", "0">>

\* handle_message, intent 'laporan': the report for the entities
LaporanReply(entities, ok, ws) ==
    generate_report(IF E_period \in DOMAIN entities THEN entities[E_period]
                    ELSE StrV(P_bulanan),
                    DictGet(entities, E_year), DictGet(entities, E_month), ok, ws)

\* jenis as handle_message derives it from transaction_type
JenisOf(transaction_type) ==
    IF transaction_type = StrV(T_income) THEN J_pemasukan ELSE J_pengeluaran

\* int(entities.get('amount')): Some(n), or None for TypeError or ValueError
AmountOf(amount) ==
    IF amount.t = "int" THEN Some(amount.n)
    ELSE IF amount.t = "str" THEN PyInt(amount.s)
    ELSE None

\* The Transaction handle_message builds from the entities of one transaction
\* whose amount converts to the int jumlah
TransactionOf(entities, jumlah) ==
    [tanggal |-> IF Truthy(DictGet(entities, E_date))
                 THEN PyStr(DictGet(entities, E_date)) ELSE Today,
     jenis |-> JenisOf(DictGet(entities, E_transaction_type)),
     kategori |-> _validate_category(DictGet(entities, E_category)),
     jumlah |-> jumlah,
     deskripsi |-> IF Truthy(DictGet(entities, E_description))
                   THEN PyStr(DictGet(entities, E_description)) ELSE <<>>]

\* handle_message, intent 'catat', single transaction, up to the Transaction it
\* builds: Some(tx), or None when a required key is missing or int() raises
CatatTransaction(entities) ==
    IF ~({E_transaction_type, E_category, E_amount} \subseteq DOMAIN entities) THEN None
    ELSE LET Built(jumlah) ==
                IF jumlah.some THEN Some(TransactionOf(entities, jumlah.v)) ELSE None
         IN  Built(AmountOf(entities[E_amount]))

-----------------------------------------------------------------------------
(* Inputs *)

D_2025_06_10 == <<"2", "0", "2", "5", "-", "0", "6", "-", "1", "0">>
D_2025_07_01 == <<"2", "0", "2", "5", "-", "0", "7", "-", "0", "1">>
D_2024_06_05 == <<"2", "0", "2", "4", "-", "0", "6", "-", "0", "5">>
D_Stamped == <<"2", "0", "2", "4", "-", "0", "6", "-", "0", "5", " ", "0", "8", ":", "3", "0">>
D_NotADate == <<"n", "o", "t", "-", "a", "-", "d", "a", "t", "e">>
D_NoSuchDay == <<"2", "0", "2", "5", "-", "0", "2", "-", "3", "0">>

C_transportation == <<"t", "r", "a", "n", "s", "p", "o", "r", "t", "a", "t", "i", "o", "n">>
C_salary == <<"s", "a", "l", "a", "r", "y">>
C_food == <<"f", "o", "o", "d", "_", "d", "i", "n", "i", "n", "g">>
Dash == <<"-">>

\* Kinds as a caller may spell them
J_Pemasukan == <<"P", "e", "m", "a", "s", "u", "k", "a", "n">>
J_PENGELUARAN == <<"P", "E", "N", "G", "E", "L", "U", "A", "R", "A", "N">>
J_transfer == <<"t", "r", "a", "n", "s", "f", "e", "r">>

Tx(tanggal, jenis, kategori, jumlah) ==
    [tanggal |-> tanggal, jenis |-> jenis, kategori |-> kategori, jumlah |-> jumlah,
     deskripsi |-> Dash]

\* Transactions that pass validate()
ValidTx ==
    {Tx(D_2025_06_10, J_pengeluaran, C_transportation, 150000),
     Tx(D_2025_06_10, J_pemasukan, C_salary, 2000000),
     Tx(D_2025_06_10, J_Pemasukan, C_salary, 3000000),
     Tx(D_2024_06_05, J_pengeluaran, C_food, 50000)}

\* Transactions validate() accepts although their date is no calendar date
BadDateTx == {Tx(D_NotADate, J_pengeluaran, C_food, 50000)}

\* Transactions validate() rejects
InvalidTx ==
    {Tx(D_2025_06_10, J_transfer, C_food, 50000),
     Tx(D_2025_06_10, J_pengeluaran, C_food, 0)}

TxInputs == ValidTx \cup BadDateTx \cup InvalidTx

\* The dict add_transaction documents: the fields of tx under the header names
SheetRow(tx) ==
    LET d == to_sheet_data(tx)
    IN  (K_Tanggal :> d[K_Date]) @@ (K_Kategori :> d[K_Category])
        @@ (K_Deskripsi :> d[K_Description])
        @@ (K_Pemasukan :> d[K_Income]) @@ (K_Pengeluaran :> d[K_Expenditure])

\* Rows whose date names a month; one date carries a time of day
GoodRows ==
    {SheetRow(tx) : tx \in ValidTx \ {Tx(D_2024_06_05, J_pengeluaran, C_food, 50000)}}
    \cup {[SheetRow(Tx(D_2024_06_05, J_pengeluaran, C_food, 50000))
              EXCEPT ![K_Tanggal] = StrV(D_Stamped)]}

\* Rows with no usable date: a date that does not parse, no date, None
BadRows ==
    {SheetRow(tx) : tx \in BadDateTx}
    \cup {(K_Kategori :> StrV(C_food)) @@ (K_Pengeluaran :> IntV(50000)),
          [SheetRow(Tx(D_2025_06_10, J_pengeluaran, C_food, 50000))
              EXCEPT ![K_Tanggal] = NoneV]}

RowInputs == GoodRows \cup BadRows

\* Titles get_or_create_sheet is called with
SheetNames == {<<"6", "/", "2", "5">>}

\* A dashboard an earlier run created, with the selectors the user left in C1
\* and C24 and its derived regions not yet computed
OldDashboard(c1, c24) == [NewDashboard EXCEPT !.C1 = c1, !.C24 = c24]

\* The Dashboard sheet the spreadsheet holds when the process starts
InitDashboards ==
    {None,
     Some(OldDashboard(<<"2", "0", "2", "4">>, "june")),
     Some(OldDashboard(<<>>, "Juni"))}

T_expense == <<"e", "x", "p", "e", "n", "s", "e">>
P_monthly == <<"m", "o", "n", "t", "h", "l", "y">>
P_yearly == <<"y", "e", "a", "r", "l", "y">>

\* The entities of one 'catat' message without its transaction_type
CatatFields(amount) ==
    (E_category :> StrV(C_food)) @@ (E_amount :> IntV(amount))
    @@ (E_description :> NoneV) @@ (E_date :> NoneV)

\* Entities of 'catat' messages: the two kinds of the interface, another kind, a
\* null kind, no kind, and an amount of 0
CatatInputs ==
    {(E_transaction_type :> StrV(T_expense)) @@ CatatFields(50000),
     (E_transaction_type :> StrV(T_income)) @@ CatatFields(50000),
     (E_transaction_type :> StrV(J_transfer)) @@ CatatFields(50000),
     (E_transaction_type :> NoneV) @@ CatatFields(50000),
     CatatFields(50000),
     (E_transaction_type :> StrV(T_expense)) @@ CatatFields(0)}

\* Entities of 'laporan' messages: the periods of the interface, the periods
\* generate_report names, a null period and no entities at all
LaporanInputs ==
    {(E_period :> StrV(P_monthly)) @@ (E_year :> IntV(2025)) @@ (E_month :> IntV(6)),
     (E_period :> StrV(P_yearly)) @@ (E_year :> IntV(2025)),
     (E_period :> StrV(P_bulanan)) @@ (E_year :> IntV(2025)) @@ (E_month :> IntV(6)),
     (E_period :> StrV(P_bulanan)) @@ (E_month :> IntV(13)),
     (E_period :> StrV(P_tahunan)) @@ (E_year :> IntV(2024)),
     (E_period :> NoneV),
     <<>>}

\* Bound: data rows in the whole spreadsheet
MaxRows == 2

\* Bound: operations that meet a backend fault
MaxFaults == 1

RECURSIVE DataRows(_)
DataRows(ws) ==
    IF Len(ws) = 0 THEN 0
    ELSE (IF Len(Head(ws).rows) > 1 THEN Len(Head(ws).rows) - 1 ELSE 0)
         + DataRows(Tail(ws))

-----------------------------------------------------------------------------
(* The store and its callers as a state machine *)

Init ==
    /\ connected = FALSE
    /\ worksheets = <<>>
    /\ dashboard \in InitDashboards
    /\ last = [op |-> "start"]
    /\ nFaults = 0
    /\ fnArg = <<>>
    /\ fnRet = <<>>

\* The caller has taken the last result and may issue the next call: the store
\* has one caller at a time
Idle == last.op \in {"start", "idle"}

\* Of the faults an operation can meet, those the budget still allows
Allowed(faults) == IF nFaults < MaxFaults THEN faults \cup {"none"} ELSE {"none"}

\* The operation makes the backend call at which the fault occurs. sheet_name is
\* the optional title the operation looks up: None when it looks up no sheet;
\* refreshes: the operation calls update_dashboard_data
Met(fault, sheet_name, refreshes) ==
    CASE fault = "none" -> TRUE
      [] fault = "connect" -> ~connected
      [] fault \in {"dash_add", "dash_layout"} -> ~connected /\ ~dashboard.some
      [] fault \in {"lookup", "append_row"} -> sheet_name.some
      [] fault = "header" -> sheet_name.some /\ SheetIndex(worksheets, sheet_name.v) = 0
      [] fault \in RecomputeFaults -> refreshes /\ (dashboard.some \/ ~connected)

\* The title add_transaction looks up for transaction_data, None when it raises
\* before any lookup
TargetSheet(transaction_data) ==
    LET date_value == DictGet(transaction_data, K_Tanggal)
        Named(sheet_name) ==
            IF sheet_name.some /\ Len(sheet_name.v) > 0 THEN sheet_name ELSE None
    IN  IF Truthy(date_value)
        THEN Named(get_sheet_name_from_date(BeforeFirst(PyStr(date_value), " ")))
        ELSE None

Spend(fault) == nFaults' = IF fault = "none" THEN nFaults ELSE nFaults + 1

ConnectFaults == {"connect", "dash_add", "dash_layout"}
CreateFaults == {"lookup", "header"}

\* main(): sheets_service.init_connection()
InitConnection(fault) ==
    /\ Idle
    /\ ~connected
    /\ \E c \in {init_connection(dashboard, fault)} :
           /\ Met(fault, None, FALSE)
           /\ connected' = c.connected
           /\ dashboard' = c.dashboard
           /\ last' = [op |-> "init_connection", result |-> c.ret]
    /\ Spend(fault)
    /\ UNCHANGED <<worksheets, fnArg, fnRet>>

\* sheets_service.get_or_create_sheet(sheet_name)
GetOrCreateSheet(sheet_name, fault) ==
    /\ Idle
    /\ \E g \in {get_or_create_sheet(worksheets, sheet_name, connected, fault)} :
           /\ connected => Met(fault, Some(sheet_name), FALSE)
           /\ ~connected => fault = "none"
           /\ worksheets' = g.worksheets
           /\ last' = [op |-> "get_or_create_sheet", arg |-> sheet_name,
                       result |-> g.ok]
    /\ Spend(fault)
    /\ UNCHANGED <<connected, dashboard, fnArg, fnRet>>

\* sheets_service.add_transaction(transaction_data)
AddTransaction(transaction_data, fault) ==
    /\ Idle
    /\ DataRows(worksheets) < MaxRows
    /\ \E sheet_name \in {TargetSheet(transaction_data)} :
           Met(fault, sheet_name, sheet_name.some)
    /\ \E r \in {add_transaction(transaction_data, connected, worksheets,
                                  dashboard, fault)} :
           /\ connected' = r.connected
           /\ worksheets' = r.worksheets
           /\ dashboard' = r.dashboard
           /\ last' = [op |-> "add_transaction", arg |-> transaction_data,
                       result |-> r.result]
    /\ Spend(fault)
    /\ UNCHANGED <<fnArg, fnRet>>

\* update_dashboard_data() with its connection guard, from the current state
UpdateResult(fault) ==
    LET c == ensure_connection(connected, dashboard, fault)
    IN  IF c.ret
        THEN [connected |-> c.connected]
             @@ update_dashboard_data(c.dashboard, worksheets, fault)
        ELSE [connected |-> c.connected, dashboard |-> c.dashboard, ret |-> FALSE]

\* sheets_service.update_dashboard_data()
UpdateDashboard(fault) ==
    /\ Idle
    /\ \E u \in {UpdateResult(fault)} :
           /\ Met(fault, None, TRUE)
           /\ connected' = u.connected
           /\ dashboard' = u.dashboard
           /\ last' = [op |-> "update_dashboard_data", result |-> u.ret]
    /\ Spend(fault)
    /\ UNCHANGED <<worksheets, fnArg, fnRet>>

\* handle_message's single-transaction branch from the current state: the store
\* after it and the reply sent
RecordResult(tx, fault) ==
    IF ~validate(tx)
    THEN [connected |-> connected, worksheets |-> worksheets, dashboard |-> dashboard,
          reply |-> "error_catat"]
    ELSE LET Replied(r) ==
                IF r.result = "True"
                THEN [connected |-> r.connected, worksheets |-> r.worksheets,
                      dashboard |->
                         update_dashboard_data(r.dashboard, r.worksheets, "none").dashboard,
                      reply |-> "catat_success"]
                ELSE [connected |-> r.connected, worksheets |-> r.worksheets,
                      dashboard |-> r.dashboard, reply |-> "error_general"]
         IN  Replied(add_transaction(to_sheet_data(tx), connected, worksheets,
                                     dashboard, fault))

\* handle_message, intent 'catat', single transaction: validate, flatten, add,
\* refresh, reply
RecordTransaction(tx, fault) ==
    /\ Idle
    /\ DataRows(worksheets) < MaxRows
    /\ IF validate(tx)
       THEN \E sheet_name \in {TargetSheet(to_sheet_data(tx))} :
                Met(fault, sheet_name, sheet_name.some)
       ELSE fault = "none"
    /\ \E r \in {RecordResult(tx, fault)} :
           /\ connected' = r.connected
           /\ worksheets' = r.worksheets
           /\ dashboard' = r.dashboard
           /\ last' = [op |-> "record", arg |-> tx, result |-> r.reply]
    /\ Spend(fault)
    /\ UNCHANGED <<fnArg, fnRet>>

\* handle_message, intent 'catat', single transaction, from the entities
HandleCatat(entities, fault) ==
    /\ Idle
    /\ DataRows(worksheets) < MaxRows
    /\ \E tx \in {CatatTransaction(entities)} :
           /\ IF tx.some /\ validate(tx.v)
              THEN \E sheet_name \in {TargetSheet(to_sheet_data(tx.v))} :
                       Met(fault, sheet_name, sheet_name.some)
              ELSE fault = "none"
           /\ \E r \in {IF tx.some THEN RecordResult(tx.v, fault)
                         ELSE [connected |-> connected, worksheets |-> worksheets,
                               dashboard |-> dashboard, reply |-> "error_catat"]} :
                  /\ connected' = r.connected
                  /\ worksheets' = r.worksheets
                  /\ dashboard' = r.dashboard
                  /\ last' = [op |-> "catat", arg |-> entities, result |-> r.reply]
    /\ Spend(fault)
    /\ UNCHANGED <<fnArg, fnRet>>

\* handle_message, intent 'laporan': generate_report behind its connection guard;
\* reconnect records that the guard found the store without handles
HandleLaporan(entities, fault) ==
    /\ Idle
    /\ Met(fault, None, FALSE)
    /\ \E c \in {ensure_connection(connected, dashboard, fault)} :
           /\ connected' = c.connected
           /\ dashboard' = c.dashboard
           /\ last' = [op |-> "laporan", arg |-> entities, reconnect |-> ~connected,
                       result |-> LaporanReply(entities, c.ret, worksheets)]
    /\ Spend(fault)
    /\ UNCHANGED <<worksheets, fnArg, fnRet>>

\* The caller takes the result of its call
Return ==
    /\ ~Idle
    /\ last' = [op |-> "idle"]
    /\ UNCHANGED <<connected, worksheets, dashboard, nFaults, fnArg, fnRet>>

Next ==
    \/ \E fault \in Allowed(ConnectFaults) : InitConnection(fault)
    \/ \E sheet_name \in SheetNames, fault \in Allowed(CreateFaults) :
            GetOrCreateSheet(sheet_name, fault)
    \/ \E transaction_data \in RowInputs, fault \in Allowed(Faults) :
            AddTransaction(transaction_data, fault)
    \/ \E fault \in Allowed(ConnectFaults \cup RecomputeFaults) : UpdateDashboard(fault)
    \/ \E tx \in TxInputs, fault \in Allowed(Faults) : RecordTransaction(tx, fault)
    \/ \E entities \in CatatInputs, fault \in Allowed(Faults) :
            HandleCatat(entities, fault)
    \/ \E entities \in LaporanInputs, fault \in Allowed(ConnectFaults) :
            HandleLaporan(entities, fault)
    \/ Return

Spec == Init /\ [][Next]_vars

-----------------------------------------------------------------------------
(* Properties of the store, stated over Spec *)

\* The rows of the sheet titled title, <<>> when there is no such sheet
RowsOf(ws, title) ==
    IF SheetIndex(ws, title) = 0 THEN <<>> ELSE ws[SheetIndex(ws, title)].rows

\* Its rows after the header row
DataOf(ws, title) ==
    IF Len(RowsOf(ws, title)) <= 1 THEN <<>> ELSE Tail(RowsOf(ws, title))

\* The partition a YYYY-MM-DD date belongs to: month without leading zero, "/",
\* last two digits of the year
PartitionOf(tanggal) ==
    (IF tanggal[6] = "0" THEN <<tanggal[7]>> ELSE <<tanggal[6], tanggal[7]>>)
    \o <<"/">> \o <<tanggal[3], tanggal[4]>>

\* The row a transaction is to be stored as: date, category, description, and the
\* amount in the column of its kind
ExpectedRow(tx) ==
    <<tx.tanggal, tx.kategori, tx.deskripsi,
      IF Lower(tx.jenis) = J_pemasukan THEN NatToStr(tx.jumlah) ELSE <<>>,
      IF Lower(tx.jenis) = J_pengeluaran THEN NatToStr(tx.jumlah) ELSE <<>>>>

\* A step that records the valid transaction last'.arg and meets no fault
RecordsValidTx ==
    /\ last'.op = "record"
    /\ last'.arg \in ValidTx
    /\ nFaults' = nFaults

\* C1: a valid transaction flattened by to_sheet_data() and handed to
\* add_transaction() on a working connection is accepted, and the partition of its
\* date gains exactly one row: date, category, description, the amount in the
\* column of its kind and a blank in the other.
C1_FlattenedRowLands ==
    [][RecordsValidTx =>
        /\ last'.result = "catat_success"
        /\ DataOf(worksheets', PartitionOf(last'.arg.tanggal))
              = Append(DataOf(worksheets, PartitionOf(last'.arg.tanggal)),
                       ExpectedRow(last'.arg))]_vars

HeaderCount(rows) == Cardinality({i \in 1..Len(rows) : rows[i] = headers})

\* C2: every monthly partition holds at most one header row, and a header row it
\* holds is its first row.
C2_HeaderOnceAndFirst ==
    \A k \in 1..Len(worksheets) :
        /\ HeaderCount(worksheets[k].rows) <= 1
        /\ HeaderCount(worksheets[k].rows) = 1 => worksheets[k].rows[1] = headers

\* get_or_create_sheet was called again for a partition that already holds data,
\* in a run where a partition had been left without its header
C2_RepeatedCreate ==
    /\ last.op = "get_or_create_sheet"
    /\ last.result
    /\ Len(RowsOf(worksheets, last.arg)) >= 2
    /\ nFaults = 1

\* The derived regions of dashboard d are what a recompute over ws gives
Fresh(d, ws) == d = RecomputeCells(d, ws, "none")

\* C3: when add_transaction() has returned True, the dashboard's monthly table,
\* annual totals and top-5 regions equal the aggregation of the current monthly
\* partitions for the selected year and month.
C3_SuccessMeansFresh ==
    (last.op = "add_transaction" /\ last.result = "True")
        => (dashboard.some /\ Fresh(dashboard.v, worksheets))

\* C4: after a run of update_dashboard_data() whose calls all went through, a
\* second run over the same partitions and selector cells leaves every dashboard
\* cell as the first run left it (whichever of its own writes go through, as long
\* as it can read the partitions).
C4_RecomputeIdempotent ==
    [][(last'.op = "update_dashboard_data" /\ nFaults' = nFaults) =>
        \A fault \in (RecomputeFaults \ {"list"}) \cup {"none"} :
            update_dashboard_data(dashboard', worksheets', fault).dashboard
                = dashboard']_vars

\* update_dashboard_data() has run on a dashboard add_transaction() had just
\* recomputed over the same partitions
C4_SecondRun ==
    /\ last.op = "update_dashboard_data"
    /\ last.result
    /\ nFaults = 0
    /\ DataRows(worksheets) >= 1
    /\ dashboard.some /\ dashboard.v.F3 # Blank

\* What tx adds to the income and to the expense of its month
IncomeOf(tx) == IF Lower(tx.jenis) = J_pemasukan THEN tx.jumlah ELSE 0
ExpenseOf(tx) == IF Lower(tx.jenis) = J_pengeluaran THEN tx.jumlah ELSE 0

DateUnusable(transaction_data) ==
    \/ K_Tanggal \notin DOMAIN transaction_data
    \/ transaction_data[K_Tanggal] \in {NoneV, StrV(<<>>)}
    \/ ~strptime_ymd(BeforeFirst(PyStr(transaction_data[K_Tanggal]), " ")).some

\* A step of add_transaction() on a row whose date is unusable
AddsUndatedRow ==
    /\ last'.op = "add_transaction"
    /\ DateUnusable(last'.arg)

\* C10: add_transaction() on a row whose date is missing or malformed raises,
\* creates no partition, writes no header, appends no row and leaves an existing
\* dashboard as it was; the one write it can make is the connection guard's
\* creation of a missing Dashboard sheet when the store was not yet connected.
C10_BadDateLeavesData ==
    [][AddsUndatedRow =>
        /\ last'.result = "raised"
        /\ worksheets' = worksheets
        /\ \/ dashboard' = dashboard
           \/ /\ ~connected /\ ~dashboard.some
              /\ dashboard' \in {Some(NewDashboard), Some(BareDashboard)}]_vars

\* C10 as stated: the call raises and writes nothing, the dashboard included.
C10_BadDateNoSideEffect ==
    [][AddsUndatedRow =>
        /\ last'.result = "raised"
        /\ worksheets' = worksheets
        /\ dashboard' = dashboard]_vars

\* add_transaction() has raised on an undated row while a partition held data
C10_UndatedRowRefused ==
    /\ last.op = "add_transaction"
    /\ last.arg \in BadRows
    /\ last.result = "raised"
    /\ DataRows(worksheets) >= 1
    /\ dashboard.some

\* A step in which the connection guard of add_transaction() or of
\* update_dashboard_data() returned false: the store is left without handles
GuardRefused ==
    /\ last'.op \in {"add_transaction", "update_dashboard_data"}
    /\ ~connected'

\* C11: when ensure_connection() returns false, add_transaction() raises and
\* update_dashboard_data() returns False, and neither reads or writes a monthly
\* partition or the dashboard.
C11_GuardFailsFast ==
    [][GuardRefused =>
        /\ last'.result = (IF last'.op = "add_transaction" THEN "raised" ELSE FALSE)
        /\ worksheets' = worksheets
        /\ dashboard' = dashboard]_vars

\* add_transaction() was refused by the guard for a row it would otherwise store
C11_RowRefusedByGuard ==
    /\ last.op = "add_transaction"
    /\ last.arg \in GoodRows
    /\ last.result = "raised"
    /\ ~connected
    /\ nFaults = 1

\* The sub-steps of a recompute whose write can fail
SubstepFaults == {"monthly", "annual", "top_annual", "top_monthly"}

\* C12: update_dashboard_data() does not return True when the write of one of
\* its four sub-steps failed.
C12_SubstepFailureSurfaced ==
    [][\A fault \in SubstepFaults :
            UpdateDashboard(fault) => last'.result = FALSE]_vars

\* The dashboard regions a sub-step writes
RegionsOf(substep) ==
    CASE substep = "monthly" -> {"table"}
      [] substep = "annual" -> {"F3", "F5", "F7"}
      [] substep = "top_annual" -> {"top_annual"}
      [] substep = "top_monthly" -> {"top_monthly"}

\* A step whose recompute meets the fault: update_dashboard_data() called by the
\* caller, or by add_transaction() after its append
RecomputeMeets(fault) ==
    \/ UpdateDashboard(fault)
    \/ /\ last'.op = "add_transaction"
       /\ last'.result = "True"
       /\ AddTransaction(last'.arg, fault)

\* C13: when one sub-step of a recompute fails, the regions of the other three
\* are still computed and written by that recompute.
C13_SubstepsIndependent ==
    [][\A fault \in SubstepFaults :
            (RecomputeMeets(fault) /\ dashboard'.some) =>
                \A other \in SubstepFaults \ {fault} : \A region \in RegionsOf(other) :
                    dashboard'.v[region]
                        = RecomputeCells(dashboard'.v, worksheets', "none")[region]]_vars

\* C14: after init_connection() has returned True the Dashboard sheet exists, and
\* whenever the store is connected and holds a Dashboard sheet, the sheet carries
\* the full static layout.
C14_InitLeavesFullLayout ==
    /\ (last.op = "init_connection" /\ last.result) => dashboard.some
    /\ (connected /\ dashboard.some) => dashboard.v.layout

\* The calls that go through ensure_connection() first
GuardedOps == {"add_transaction", "update_dashboard_data", "laporan"}

\* The call reported that it could not reach the spreadsheet
ReportsNoConnection(l) ==
    CASE l.op = "add_transaction" -> l.result = "raised"
      [] l.op = "update_dashboard_data" -> l.result = FALSE
      [] l.op = "laporan" -> l.result.kind = "no_connection"

\* C15: a failed init_connection() returns False and leaves the store without
\* handles; the next add_transaction, recompute or report tries to connect again:
\* it ends connected when the backend answers, and reports the failure and stays
\* without handles when the connection attempt fails again.
C15_LazyReconnect ==
    [][/\ (last'.op = "init_connection" /\ ~last'.result) => ~connected'
       /\ (~connected /\ last'.op \in GuardedOps) =>
            /\ nFaults' = nFaults => connected'
            /\ ~connected' => (ReportsNoConnection(last') /\ nFaults' = nFaults + 1)
            /\ (connected' /\ last'.op = "laporan")
                    => last'.result.kind # "no_connection"]_vars

\* After a connection attempt had failed, a report found the store without
\* handles, connected, and created the missing Dashboard sheet
C15_ReportReconnected ==
    /\ last.op = "laporan"
    /\ last.reconnect
    /\ last.result.kind # "no_connection"
    /\ connected
    /\ nFaults = 1
    /\ dashboard = Some(NewDashboard)

\* The cell of data row row under the header column key
AmountCell(row, key) == row[IndexOf(headers, key)]

UnrecognizedKind(entities) ==
    \/ E_transaction_type \notin DOMAIN entities
    \/ entities[E_transaction_type] \notin {StrV(T_income), StrV(T_expense)}

\* C19: a 'catat' message whose transaction_type is neither income nor expense, or
\* is missing, fails validation: handle_message answers with the validation error
\* and no partition gains a row.
C19_UnrecognizedKindRejected ==
    [][(last'.op = "catat" /\ UnrecognizedKind(last'.arg)) =>
        /\ last'.result = "error_catat"
        /\ worksheets' = worksheets]_vars

\* C20: a 'laporan' message whose period is monthly is answered by the monthly
\* report renderer and one whose period is yearly by the annual report renderer,
\* whenever the store is connected; neither is answered as an unrecognized report
\* type.
C20_PeriodDispatched ==
    [][(/\ last'.op = "laporan"
        /\ E_period \in DOMAIN last'.arg
        /\ last'.result.kind # "no_connection") =>
            /\ last'.arg[E_period] = StrV(P_monthly) => last'.result.renderer = "monthly"
            /\ last'.arg[E_period] = StrV(P_yearly) => last'.result.renderer = "annual"
            /\ last'.arg[E_period] \in {StrV(P_monthly), StrV(P_yearly)}
                  => last'.result.kind # "unrecognized"]_vars

\* rows is the beginning of rows2
IsPrefix(rows, rows2) ==
    Len(rows) <= Len(rows2) /\ SubSeq(rows2, 1, Len(rows)) = rows

\* Every partition of ws is a partition of ws2, with its rows and in its place
Kept(ws, ws2) ==
    /\ Len(ws) <= Len(ws2)
    /\ \A i \in 1..Len(ws) :
          /\ ws2[i].title = ws[i].title
          /\ IsPrefix(ws[i].rows, ws2[i].rows)

\* Partition i of ws2 has one data row more than in ws, after the rows it had
\* there; its header row is new when it had no row at all
GrewByOneRow(ws, ws2, i) ==
    /\ Len(DataOf(ws2, ws2[i].title)) = Len(DataOf(ws, ws2[i].title)) + 1
    /\ Len(ws2[i].rows) = (IF Len(RowsOf(ws, ws2[i].title)) = 0 THEN 2
                           ELSE Len(RowsOf(ws, ws2[i].title)) + 1)
    /\ IsPrefix(RowsOf(ws, ws2[i].title), ws2[i].rows)

\* C24: no step of the store or of its callers deletes a monthly partition or
\* changes or removes a row of one, and an add_transaction() that returns True
\* gives exactly one partition exactly one more data row (and its header row when
\* it had none) and leaves the rows of every other partition as they were.
C24_AppendOnly ==
    [][/\ Kept(worksheets, worksheets')
       /\ (last'.op = "add_transaction" /\ last'.result = "True") =>
             \E i \in 1..Len(worksheets') :
                /\ GrewByOneRow(worksheets, worksheets', i)
                /\ \A j \in (1..Len(worksheets')) \ {i} :
                      /\ j <= Len(worksheets)
                      /\ worksheets'[j] = worksheets[j]]_vars

\* A second add_transaction() has returned True, with two partitions in the store
C24_SecondRowAdded ==
    /\ last.op = "add_transaction"
    /\ last.result = "True"
    /\ Len(worksheets) = 2
    /\ DataRows(worksheets) = 2

\* The cells of the dashboard that are not derived: the static labels and the
\* two selector cells
FrameOf(d) == [layout |-> d.layout, C1 |-> d.C1, C24 |-> d.C24]

-----------------------------------------------------------------------------
(* Transaction.validate() as a function, stated over SpecValidate *)

J_income == <<"i", "n", "c", "o", "m", "e">>

KindInputs ==
    {J_pemasukan, J_pengeluaran, J_Pemasukan, J_PENGELUARAN, J_transfer, J_income, <<>>}

AmountInputs == {0 - 150000, 0 - 1, 0, 1, 150000, 2000000}

\* The store at rest, which the function specifications leave alone
StoreAtRest ==
    /\ connected = FALSE
    /\ worksheets = <<>>
    /\ dashboard = None
    /\ last = [op |-> "start"]
    /\ nFaults = 0

InitValidate ==
    /\ StoreAtRest
    /\ fnArg \in {Tx(D_2025_06_10, jenis, kategori, jumlah) :
                    jenis \in KindInputs, kategori \in {C_food, C_salary},
                    jumlah \in AmountInputs}
    /\ fnRet = None

\* transaction.validate()
Validate ==
    /\ fnRet = None
    /\ fnRet' = Some(validate(fnArg))
    /\ UNCHANGED <<connected, worksheets, dashboard, last, nFaults, fnArg>>

SpecValidate == InitValidate /\ [][Validate]_vars

\* The kind is one of the two recognized values, in any letter case
RecognizedKind(jenis) == Lower(jenis) \in {J_pemasukan, J_pengeluaran}

\* C5: validate() succeeds for every transaction whose kind is recognized and
\* whose amount is > 0, and raises for every transaction whose amount is <= 0 or
\* whose kind is not recognized.
C5_ValidateAccepts ==
    fnRet.some =>
        /\ (RecognizedKind(fnArg.jenis) /\ fnArg.jumlah > 0) => fnRet.v
        /\ (fnArg.jumlah <= 0 \/ ~RecognizedKind(fnArg.jenis)) => ~fnRet.v

\* validate() has refused a transaction of a recognized kind for its amount 0
C5_ZeroRefused ==
    /\ fnRet = Some(FALSE)
    /\ fnArg.jenis = J_pengeluaran
    /\ fnArg.jumlah = 0

-----------------------------------------------------------------------------
(* get_sheet_name_from_date as a function, stated over SpecName *)

YearTexts ==
    {<<"2", "0", "2", "5">>, <<"2", "0", "2", "4">>, <<"1", "9", "9", "9">>,
     <<"2", "1", "0", "0">>, <<"0", "9", "9", "9">>, <<"0", "0", "9", "9">>,
     <<"0", "0", "0", "0">>, <<"2", "5">>}

MonthTexts == {<<"0", "1">>, <<"0", "6">>, <<"1", "2">>, <<"1", "3">>, <<"0", "0">>,
               <<"0", "2">>, <<"6">>}

DayTexts == {<<"0", "1">>, <<"1", "0">>, <<"2", "9">>, <<"3", "0">>, <<"3", "1">>,
             <<"0", "0">>, <<"5">>}

DateInputs ==
    {y \o <<"-">> \o m \o <<"-">> \o d : y \in YearTexts, m \in MonthTexts, d \in DayTexts}
    \cup {D_NotADate, D_Stamped, <<>>}

InitName ==
    /\ StoreAtRest
    /\ fnArg \in DateInputs
    /\ fnRet = None

\* sheets_service.get_sheet_name_from_date(date_str)
GetSheetName ==
    /\ fnRet = None
    /\ fnRet' = Some(get_sheet_name_from_date(fnArg))
    /\ UNCHANGED <<connected, worksheets, dashboard, last, nFaults, fnArg>>

SpecName == InitName /\ [][GetSheetName]_vars

\* The text between the (k-1)-th and the k-th "-" of s
RECURSIVE Field(_, _)
Field(s, k) ==
    IF k = 1 THEN BeforeFirst(s, "-")
    ELSE IF FirstIndex(s, "-") = 0 THEN <<>>
    ELSE Field(DropChars(s, FirstIndex(s, "-")), k - 1)

\* s is a year-month-day date: a four-digit year, a month and a day of one or two
\* digits, and the day exists in the calendar
WellFormedDate(s) ==
    /\ CountChar(s, "-") = 2
    /\ Len(Field(s, 1)) = 4 /\ IsDigits(Field(s, 1))
    /\ Len(Field(s, 2)) \in {1, 2} /\ IsDigits(Field(s, 2))
    /\ Len(Field(s, 3)) \in {1, 2} /\ IsDigits(Field(s, 3))
    /\ DigitsToNat(Field(s, 1)) >= 1
    /\ DigitsToNat(Field(s, 2)) \in 1..12
    /\ DigitsToNat(Field(s, 3)) >= 1
    /\ DigitsToNat(Field(s, 3))
          <= DaysInMonth(DigitsToNat(Field(s, 1)), DigitsToNat(Field(s, 2)))

\* "{month without leading zero}/{last two digits of the year}"
NameOfDate(s) ==
    NatToStr(DigitsToNat(Field(s, 2))) \o <<"/">> \o SubSeq(Field(s, 1), 3, 4)

\* C6: for every well-formed date get_sheet_name_from_date() returns the month
\* without leading zero, "/", and the last two digits of the year; for every other
\* input it returns None.
C6_NameOfEveryDate ==
    fnRet.some =>
        IF WellFormedDate(fnArg) THEN fnRet.v = Some(NameOfDate(fnArg))
        ELSE fnRet.v = None

-----------------------------------------------------------------------------
(* _get_sheet_summary as a function, stated over SpecSummary *)

C_foodOnly == <<"f", "o", "o", "d">>

T_50000 == <<"5", "0", "0", "0", "0">>
T_bad == <<"b", "a", "d">>
T_25comma000 == <<"2", "5", ",", "0", "0", "0">>
T_2000000 == <<"2", "0", "0", "0", "0", "0", "0">>
T_1comma500 == <<"1", ",", "5", "0", "0">>
T_300 == <<"3", "0", "0">>

\* A sheet row: date, category, description, income cell, expense cell
Row(kategori, pemasukan, pengeluaran) ==
    <<D_2025_06_10, kategori, Dash, pemasukan, pengeluaran>>

\* The rows a sheet is filled from: the four expense cells of the food example, an
\* income row, a row with both cells filled and a row whose income cell is text
RowKinds ==
    {Row(C_foodOnly, <<>>, T_50000), Row(C_foodOnly, <<>>, T_bad),
     Row(C_foodOnly, <<>>, <<>>), Row(C_foodOnly, <<>>, T_25comma000),
     Row(C_salary, T_2000000, <<>>), Row(C_transportation, T_1comma500, T_300),
     Row(C_transportation, T_bad, T_50000)}

\* Bound: data rows of the sheet summarized
MaxSummaryRows == 4

InitSummary ==
    /\ StoreAtRest
    /\ fnArg \in {<<headers>> \o data :
                    data \in UNION {[1..n -> RowKinds] : n \in 0..MaxSummaryRows}}
    /\ fnRet = None

\* self._get_sheet_summary(worksheet)
GetSheetSummary ==
    /\ fnRet = None
    /\ fnRet' = Some(_get_sheet_summary(fnArg))
    /\ UNCHANGED <<connected, worksheets, dashboard, last, nFaults, fnArg>>

SpecSummary == InitSummary /\ [][GetSheetSummary]_vars

\* The number a cell stands for once its thousands separators are dropped, 0 for
\* a blank cell and for text that is no number
Parsed(cell) ==
    LET digits == SelectSeq(cell, LAMBDA c : c # ",")
    IN  IF Len(digits) > 0 /\ IsDigits(digits) THEN DigitsToNat(digits) ELSE 0

\* The sum of Parsed over column col of the data rows i.. of a sheet, over the
\* rows of category kategori (any category when kategori is <<"*">>)
RECURSIVE ColumnSum(_, _, _, _)
ColumnSum(rows, i, col, kategori) ==
    IF i > Len(rows) THEN 0
    ELSE (IF kategori \in {<<"*">>, rows[i][2]} THEN Parsed(rows[i][col]) ELSE 0)
         + ColumnSum(rows, i + 1, col, kategori)

\* The sheet of the food example
FoodSheet ==
    <<headers, Row(C_foodOnly, <<>>, T_50000), Row(C_foodOnly, <<>>, T_bad),
      Row(C_foodOnly, <<>>, <<>>), Row(C_foodOnly, <<>>, T_25comma000)>>

\* C7: total_income and total_expenditure are the sums of the income cells and of
\* the expense cells, each cell parsed on its own with its thousands separators
\* dropped and counting 0 when it is blank or no number; net_difference is their
\* difference; the category map holds, per category, the sum of its expense cells
\* only; the food example gives 75000 and {food: 75000}.
C7_SummaryIsColumnSums ==
    fnRet.some =>
        LET sum == fnRet.v
            cats == sum.categories
        IN  /\ sum.total_income = ColumnSum(fnArg, 2, 4, <<"*">>)
            /\ sum.total_expenditure = ColumnSum(fnArg, 2, 5, <<"*">>)
            /\ sum.net_difference = sum.total_income - sum.total_expenditure
            /\ \A i \in 1..Len(cats) :
                  /\ cats[i].amount = ColumnSum(fnArg, 2, 5, cats[i].category)
                  /\ \A j \in 1..Len(cats) : cats[j].category = cats[i].category => j = i
            /\ \A r \in 2..Len(fnArg) :
                  ColumnSum(fnArg, 2, 5, fnArg[r][2]) > 0
                      => \E i \in 1..Len(cats) : cats[i].category = fnArg[r][2]
            /\ fnArg = FoodSheet =>
                  /\ sum.total_expenditure = 75000
                  /\ cats = <<[category |-> C_foodOnly, amount |-> 75000]>>

\* The food example has been summarized to 75000 under the one category food
C7_FoodExample ==
    /\ fnArg = FoodSheet
    /\ fnRet.some
    /\ fnRet.v.total_expenditure = 75000
    /\ fnRet.v.categories = <<[category |-> C_foodOnly, amount |-> 75000]>>

\* sum(categories.values())
RECURSIVE CategorySum(_)
CategorySum(categories) ==
    IF Len(categories) = 0 THEN 0
    ELSE Head(categories).amount + CategorySum(Tail(categories))

\* The two equations of a summary
Balanced(summary) ==
    /\ CategorySum(summary.categories) = summary.total_expenditure
    /\ summary.net_difference = summary.total_income - summary.total_expenditure

\* C27: in every summary _get_sheet_summary() returns the values of the category
\* map add up to total_expenditure and net_difference is total_income minus
\* total_expenditure; so it is in the all-zero summary it returns when it fails.
C27_CategoriesPartitionExpense ==
    /\ Balanced(ZeroSummary)
    /\ fnRet.some => Balanced(fnRet.v)

\* A sheet with an income, expenses under two categories, two of them under one,
\* has been summarized
C27_TwoCategoriesSummarized ==
    /\ fnRet.some
    /\ fnRet.v.total_income > 0
    /\ Len(fnRet.v.categories) = 2
    /\ \E i \in 1..2 : fnRet.v.categories[i].amount = 75000

-----------------------------------------------------------------------------
(* The top-5 payload as a function, stated over SpecTop *)

CategoryNames == <<"a", "b", "c", "d", "e", "f", "g", "h">>

\* The totals of the example {a:300, b:100, c:500, d:500, e:200, f:50}, continued
ExampleAmounts == <<300, 100, 500, 500, 200, 50, 300, 100>>

\* Bound: categories in the map ranked
MaxCategories == 6

\* Maps of n categories in insertion order a, b, ...: each total is the example's
\* or one of two totals that tie with others
CategoryMaps(n) ==
    {[i \in 1..n |-> [category |-> <<CategoryNames[i]>>, amount |-> amounts[i]]] :
        amounts \in [1..n -> {100, 500}] \cup
                    {[i \in 1..n |-> IF i \in picked THEN ExampleAmounts[i] ELSE 100] :
                        picked \in SUBSET (1..n)}}

InitTop ==
    /\ StoreAtRest
    /\ fnArg \in UNION {CategoryMaps(n) : n \in 0..MaxCategories}
    /\ fnRet = None

\* The annual half of _update_top_expenditures on all_categories_annual = fnArg
WriteTopAnnual ==
    /\ fnRet = None
    /\ fnRet' = Some(TopPayload(fnArg))
    /\ UNCHANGED <<connected, worksheets, dashboard, last, nFaults, fnArg>>

SpecTop == InitTop /\ [][WriteTopAnnual]_vars

\* The place of the p-th item of map in the ranking: after the items with a larger
\* total and after the items with the same total that were met before it
Rank(map, p) ==
    1 + Cardinality({q \in 1..Len(map) :
                        \/ map[q].amount > map[p].amount
                        \/ map[q].amount = map[p].amount /\ q < p})

ExampleMap ==
    [i \in 1..6 |-> [category |-> <<CategoryNames[i]>>, amount |-> ExampleAmounts[i]]]

\* C9: the region holds the (category, total) pairs in descending order of total,
\* ties in the order the aggregation met them, cut to 5 rows, the unused rows
\* blank; the example gives c, d, a, e, b without f.
C9_TopFiveRanking ==
    fnRet.some =>
        /\ Len(fnRet.v) = 5
        /\ \A p \in 1..Len(fnArg) :
              Rank(fnArg, p) <= 5 =>
                  fnRet.v[Rank(fnArg, p)]
                      = <<StrV(fnArg[p].category), IntV(fnArg[p].amount)>>
        /\ \A k \in 1..5 : k > Len(fnArg) => fnRet.v[k] = <<Blank, Blank>>
        /\ fnArg = ExampleMap =>
              [k \in 1..5 |-> fnRet.v[k][1]]
                  = <<StrV(<<"c">>), StrV(<<"d">>), StrV(<<"a">>), StrV(<<"e">>),
                      StrV(<<"b">>)>>

\* The example map has been ranked: c and d lead with 500 each, b closes with 100
C9_ExampleRanked ==
    /\ fnArg = ExampleMap
    /\ fnRet.some
    /\ fnRet.v[1] = <<StrV(<<"c">>), IntV(500)>>
    /\ fnRet.v[2] = <<StrV(<<"d">>), IntV(500)>>
    /\ fnRet.v[5] = <<StrV(<<"b">>), IntV(100)>>

-----------------------------------------------------------------------------
(* get_monthly_sheets as a function, stated over SpecDiscover *)

MaxSheets == 2

N_Dashboard == <<"D", "a", "s", "h", "b", "o", "a", "r", "d">>
N_Notes == <<"N", "o", "t", "e", "s">>
N_6_25 == <<"6", "/", "2", "5">>
N_12_24 == <<"1", "2", "/", "2", "4">>
N_06_25 == <<"0", "6", "/", "2", "5">>
N_13_25 == <<"1", "3", "/", "2", "5">>
N_0_25 == <<"0", "/", "2", "5">>
N_6_2025 == <<"6", "/", "2", "0", "2", "5">>
N_6_5 == <<"6", "/", "5">>
N_6_ == <<"6", "/">>
N_Notes_Ideas == <<"N", "o", "t", "e", "s", "/", "I", "d", "e", "a", "s">>
N_1_2_25 == <<"1", "/", "2", "/", "2", "5">>

SheetTitles ==
    {N_Dashboard, N_Notes, N_6_25, N_12_24, N_06_25, N_13_25, N_0_25, N_6_2025,
     N_6_5, N_6_, N_Notes_Ideas, N_1_2_25}

\* The spreadsheets of at most MaxSheets sheets with distinct titles, each sheet
\* holding its header row
SheetLists ==
    {ws \in UNION {[1..n -> [title : SheetTitles, rows : {<<headers>>}]] :
                        n \in 0..MaxSheets} :
        \A i, j \in 1..Len(ws) : ws[i].title = ws[j].title => i = j}

InitDiscover ==
    /\ StoreAtRest
    /\ fnArg \in SheetLists
    /\ fnRet = None

\* self.get_monthly_sheets()
GetMonthlySheets ==
    /\ fnRet = None
    /\ fnRet' = Some(get_monthly_sheets(fnArg))
    /\ UNCHANGED <<connected, worksheets, dashboard, last, nFaults, fnArg>>

SpecDiscover == InitDiscover /\ [][GetMonthlySheets]_vars

\* The month/2-digit-year pattern: a month number 1..12, '/', and two digits
MatchesPattern(sheet_name) ==
    /\ CountChar(sheet_name, "/") = 1
    /\ LET month_str == BeforeFirst(sheet_name, "/")
           year_str == DropChars(sheet_name, FirstIndex(sheet_name, "/"))
       IN  /\ Len(month_str) \in 1..2
           /\ IsDigits(month_str)
           /\ DigitsToNat(month_str) \in 1..12
           /\ Len(year_str) = 2
           /\ IsDigits(year_str)

TitlesOf(ws) == [i \in 1..Len(ws) |-> ws[i].title]

DiscoveredNames(monthly_data) ==
    [i \in 1..Len(monthly_data) |-> monthly_data[i].sheet_name]

\* C16: get_monthly_sheets() returns exactly the sheets whose name matches the
\* month/2-digit-year pattern (month 1-12, two-digit year), in the order of the
\* spreadsheet: every other sheet is left out, and leaves the matching ones in.
C16_DiscoveryMatchesPattern ==
    fnRet.some =>
        DiscoveredNames(fnRet.v) = SelectSeq(TitlesOf(fnArg), MatchesPattern)

-----------------------------------------------------------------------------
(* The row add_transaction appends, stated over SpecRow *)

K_Catatan == <<"C", "a", "t", "a", "t", "a", "n">>
N_6_24 == <<"6", "/", "2", "4">>

\* Header rows a partition may have: the default one, reordered ones, one with a
\* column more and ones with a column less
HeaderRows ==
    {headers,
     <<K_Pengeluaran, K_Pemasukan, K_Deskripsi, K_Kategori, K_Tanggal>>,
     <<K_Kategori, K_Tanggal, K_Pengeluaran, K_Deskripsi, K_Pemasukan>>,
     <<K_Tanggal, K_Kategori, K_Catatan, K_Deskripsi, K_Pemasukan, K_Pengeluaran>>,
     <<K_Pemasukan, K_Catatan, K_Tanggal, K_Pengeluaran>>,
     <<K_Tanggal, K_Kategori, K_Pemasukan, K_Pengeluaran>>,
     <<K_Catatan, K_Tanggal>>}

\* The rows handed to add_transaction: a date of June 2024 with or without a time
\* of day, an amount of either kind, with or without a description, with or
\* without a field no header names
AppendedInputs ==
    {((K_Tanggal :> StrV(date)) @@ (K_Kategori :> StrV(C_food)) @@ amounts) @@ more :
        date \in {D_2024_06_05, D_Stamped},
        amounts \in {(K_Pemasukan :> StrV(<<>>)) @@ (K_Pengeluaran :> IntV(150000)),
                     (K_Pemasukan :> IntV(5000000)) @@ (K_Pengeluaran :> NoneV)},
        more \in {<<>>,
                  (K_Deskripsi :> StrV(Dash)),
                  (K_Deskripsi :> StrV(Dash)) @@ (K_Income :> IntV(7))}}

InitRow ==
    /\ connected = FALSE
    /\ worksheets \in {<<[title |-> N_6_24, rows |-> <<hdr>>]>> : hdr \in HeaderRows}
    /\ dashboard = None
    /\ last = [op |-> "start"]
    /\ nFaults = 0
    /\ fnArg \in AppendedInputs
    /\ fnRet = None

\* sheets_service.add_transaction(transaction_data), no backend call failing
AddRow ==
    /\ fnRet = None
    /\ \E r \in {add_transaction(fnArg, connected, worksheets, dashboard, "none")} :
           /\ connected' = r.connected
           /\ worksheets' = r.worksheets
           /\ dashboard' = r.dashboard
           /\ fnRet' = Some(r.result)
    /\ UNCHANGED <<last, nFaults, fnArg>>

SpecRow == InitRow /\ [][AddRow]_vars

\* The text a field is to be stored as: a date without its time of day, any other
\* value as its text, None as a blank
CellText(key, value) ==
    IF value.t = "none" THEN <<>>
    ELSE IF key = K_Tanggal THEN BeforeFirst(PyStr(value), " ")
    ELSE PyStr(value)

\* C18: the row add_transaction() appends has one cell per cell of the partition's
\* header row; the cell under a header that is the key of a field holds that field,
\* the date without its time of day; every other cell is blank, so a field no
\* header names is in no cell.
C18_PlacedByHeaderName ==
    fnRet = Some("True") =>
        LET rows == worksheets[1].rows
            hdr == rows[1]
            row == rows[Len(rows)]
        IN  /\ Len(rows) = 2
            /\ Len(row) = Len(hdr)
            /\ \A i \in 1..Len(hdr) :
                  row[i] = IF hdr[i] \in DOMAIN fnArg
                           THEN CellText(hdr[i], fnArg[hdr[i]])
                           ELSE <<>>

\* add_transaction() has appended a row with a time of day in its date, a field
\* no header names and no field for one column, under a reordered header row
C18_ReorderedHeaderRowFilled ==
    /\ fnRet = Some("True")
    /\ worksheets[1].rows[1][1] # K_Tanggal
    /\ fnArg[K_Tanggal] = StrV(D_Stamped)
    /\ \E key \in DOMAIN fnArg : ~InSeq(worksheets[1].rows[1], key)
    /\ \E i \in 1..Len(worksheets[1].rows[1]) :
          worksheets[1].rows[1][i] \notin DOMAIN fnArg

-----------------------------------------------------------------------------
(* main.py: handle_message as a whole, stated over SpecMessage *)

\* Parsed JSON: a dict is its items as a function, a list its elements
DictV(d) == [t |-> "dict", d |-> d]
ListV(l) == [t |-> "list", l |-> l]

S_intent == <<"i", "n", "t", "e", "n", "t">>
S_entities == <<"e", "n", "t", "i", "t", "i", "e", "s">>
S_details == <<"d", "e", "t", "a", "i", "l", "s">>
E_transactions == <<"t", "r", "a", "n", "s", "a", "c", "t", "i", "o", "n", "s">>
I_catat == <<"c", "a", "t", "a", "t">>
I_laporan == <<"l", "a", "p", "o", "r", "a", "n">>
I_tidak_paham == <<"t", "i", "d", "a", "k", "_", "p", "a", "h", "a", "m">>
I_unclear == <<"u", "n", "c", "l", "e", "a", "r">>
I_error == <<"e", "r", "r", "o", "r">>

\* The outcome of handle_message: the store after it, the replies it sent, and
\* whether an exception left it
Outcome(conn, ws, dash, replies, escaped) ==
    [connected |-> conn, worksheets |-> ws, dashboard |-> dash,
     replies |-> replies, escaped |-> escaped]

\* The loop over entities["transactions"] from item i on: st is the store and
\* success_count the count so far; an item that raises is passed over
RECURSIVE TransactionsLoop(_, _, _, _, _)
TransactionsLoop(items, i, st, success_count, fault) ==
    IF i > Len(items) THEN [st |-> st, success_count |-> success_count]
    ELSE LET Added(r) ==
                TransactionsLoop(items, i + 1,
                    [connected |-> r.connected, worksheets |-> r.worksheets,
                     dashboard |-> r.dashboard],
                    IF r.result = "True" THEN success_count + 1 ELSE success_count,
                    fault)
             Built(tx) ==
                IF tx.some /\ validate(tx.v)
                THEN Added(add_transaction(to_sheet_data(tx.v), st.connected,
                                           st.worksheets, st.dashboard, fault))
                ELSE TransactionsLoop(items, i + 1, st, success_count, fault)
             Converted(tx_data, jumlah) ==
                Built(IF jumlah.some THEN Some(TransactionOf(tx_data, jumlah.v))
                      ELSE None)
         IN  IF items[i].t # "dict"
             THEN TransactionsLoop(items, i + 1, st, success_count, fault)
             ELSE Converted(items[i].d, AmountOf(DictGet(items[i].d, E_amount)))

\* handle_message, intent 'catat', several transactions (lines 82-116)
CatatSeveral(transactions, conn, ws, dash, fault) ==
    LET Refreshed(st, c) ==
            Outcome(c.connected, st.worksheets,
                    IF c.ret
                    THEN update_dashboard_data(c.dashboard, st.worksheets, "none").dashboard
                    ELSE c.dashboard,
                    <<"catat_success_multiple">>, FALSE)
        Counted(l) ==
            IF l.success_count > 0
            THEN Refreshed(l.st, ensure_connection(l.st.connected, l.st.dashboard, "none"))
            ELSE Outcome(l.st.connected, l.st.worksheets, l.st.dashboard,
                         <<"error_catat">>, FALSE)
    IN  IF transactions.t # "list"
        THEN Outcome(conn, ws, dash, <<"error_catat">>, FALSE)
        ELSE Counted(TransactionsLoop(transactions.l, 1,
                        [connected |-> conn, worksheets |-> ws, dashboard |-> dash],
                        0, fault))

\* handle_message, intent 'catat' (lines 78-156), on the store of the state
CatatOutcome(entities, fault) ==
    LET One(r) == Outcome(r.connected, r.worksheets, r.dashboard, <<r.reply>>, FALSE)
        Single(tx) ==
            IF tx.some THEN One(RecordResult(tx.v, fault))
            ELSE Outcome(connected, worksheets, dashboard, <<"error_catat">>, FALSE)
    IN  IF entities.t # "dict"
        THEN Outcome(connected, worksheets, dashboard, <<"error_catat">>, FALSE)
        ELSE IF E_transactions \in DOMAIN entities.d
        THEN CatatSeveral(entities.d[E_transactions], connected, worksheets,
                          dashboard, fault)
        ELSE Single(CatatTransaction(entities.d))

\* handle_message, intent 'laporan' (lines 158-187), on the store of the state
LaporanOutcome(entities, fault) ==
    LET Sent(c) ==
            Outcome(c.connected, worksheets, c.dashboard,
                    <<LaporanReply(entities.d, c.ret, worksheets).kind>>, FALSE)
    IN  IF entities.t # "dict"
        THEN Outcome(connected, worksheets, dashboard, <<"laporan_failed">>, FALSE)
        ELSE Sent(ensure_connection(connected, dashboard, fault))

\* handle_message(update, context) for the structure process_text returned
handle_message(structured_data, fault) ==
    LET Dispatch(intent, entities) ==
            IF intent = StrV(I_catat) THEN CatatOutcome(entities, fault)
            ELSE IF intent = StrV(I_laporan) THEN LaporanOutcome(entities, fault)
            ELSE IF intent = StrV(I_tidak_paham)
            THEN Outcome(connected, worksheets, dashboard, <<"unclear_intent">>, FALSE)
            ELSE IF entities.t # "dict"
            THEN Outcome(connected, worksheets, dashboard, <<>>, TRUE)
            ELSE Outcome(connected, worksheets, dashboard, <<"error_general">>, FALSE)
    IN  IF structured_data.t # "dict"
        THEN Outcome(connected, worksheets, dashboard, <<>>, TRUE)
        ELSE Dispatch(DictGet(structured_data.d, S_intent),
                      IF S_entities \in DOMAIN structured_data.d
                      THEN structured_data.d[S_entities] ELSE DictV(<<>>))

\* Whether handle_message gets as far as a call of the store for structured_data
ReachesStore(structured_data) ==
    /\ structured_data.t = "dict"
    /\ S_entities \in DOMAIN structured_data.d
    /\ structured_data.d[S_entities].t = "dict"
    /\ LET intent == DictGet(structured_data.d, S_intent)
           entities == structured_data.d[S_entities].d
           Valid(tx) == tx.some /\ validate(tx.v)
       IN  \/ intent = StrV(I_laporan)
           \/ /\ intent = StrV(I_catat)
              /\ IF E_transactions \in DOMAIN entities
                 THEN /\ entities[E_transactions].t = "list"
                      /\ \E i \in 1..Len(entities[E_transactions].l) :
                            /\ entities[E_transactions].l[i].t = "dict"
                            /\ Valid(CatatTransaction(entities[E_transactions].l[i].d))
                 ELSE Valid(CatatTransaction(entities))

\* A structure with the given intent and entities
Structured(intent, entities) ==
    DictV((S_intent :> intent) @@ (S_entities :> entities))

\* What process_text may return: the structures of the interface, structures
\* with entities missing, null or of another type, other intents, the error
\* structure of process_text itself, and JSON that is no object
MessageInputs ==
    {Structured(StrV(I_catat), DictV(e)) : e \in CatatInputs}
    \cup {Structured(StrV(I_laporan), DictV(e)) : e \in LaporanInputs}
    \cup {Structured(StrV(I_catat),
             DictV(E_transactions :> ListV(<<DictV((E_transaction_type :> StrV(T_expense))
                                                    @@ CatatFields(50000)),
                                             NoneV,
                                             DictV((E_transaction_type :> StrV(T_income))
                                                    @@ CatatFields(0))>>))),
          Structured(StrV(I_catat), DictV(E_transactions :> NoneV)),
          Structured(StrV(I_catat), NoneV),
          Structured(StrV(I_laporan), NoneV),
          Structured(StrV(I_laporan), StrV(P_monthly)),
          Structured(StrV(I_tidak_paham), DictV(<<>>)),
          Structured(StrV(I_tidak_paham), NoneV),
          Structured(StrV(I_unclear), DictV(<<>>)),
          Structured(StrV(I_unclear), NoneV),
          Structured(NoneV, ListV(<<>>)),
          DictV(S_intent :> StrV(I_unclear)),
          DictV(S_intent :> StrV(I_catat)),
          DictV((S_intent :> StrV(I_error)) @@ (S_details :> StrV(Dash))),
          DictV(<<>>),
          ListV(<<>>),
          NoneV}

\* The spreadsheet as a session of the bot finds it: empty, or with the partition
\* of June 2025 holding one expense
InitMessage ==
    /\ connected = FALSE
    /\ worksheets \in {<<>>,
                       <<[title |-> N_6_25,
                          rows |-> <<headers,
                                     <<D_2025_06_10, C_food, Dash, <<>>,
                                       NatToStr(50000)>>>>]>>}
    /\ dashboard \in InitDashboards
    /\ last = [op |-> "start"]
    /\ nFaults = 0
    /\ fnArg = <<>>
    /\ fnRet = <<>>

\* handle_message for one inbound text message
HandleMessage(structured_data, fault) ==
    /\ Idle
    /\ IF ReachesStore(structured_data) THEN Met(fault, None, FALSE) ELSE fault = "none"
    /\ \E r \in {handle_message(structured_data, fault)} :
           /\ connected' = r.connected
           /\ worksheets' = r.worksheets
           /\ dashboard' = r.dashboard
           /\ last' = [op |-> "message", arg |-> structured_data,
                       replies |-> r.replies, escaped |-> r.escaped]
    /\ Spend(fault)
    /\ UNCHANGED <<fnArg, fnRet>>

NextMessage ==
    \/ \E fault \in Allowed(ConnectFaults) : InitConnection(fault)
    \/ \E structured_data \in MessageInputs, fault \in Allowed(ConnectFaults) :
            HandleMessage(structured_data, fault)
    \/ Return

SpecMessage == InitMessage /\ [][NextMessage]_vars

\* C21: handle_message() sends at least one reply for every structure
\* process_text() can return and every outcome of the store, and no exception
\* leaves it.
C21_EveryMessageReplied ==
    [][last'.op = "message" => (Len(last'.replies) >= 1 /\ ~last'.escaped)]_vars

-----------------------------------------------------------------------------
(* Transaction._validate_category as a function, stated over SpecCategory *)

T_BeliBensin == <<"B", "e", "l", "i", " ", "B", "e", "n", "s", "i", "n">>
T_GajiBulanan == <<"G", "A", "J", "I", " ", "b", "u", "l", "a", "n", "a", "n">>
T_Salary == <<"S", "a", "l", "a", "r", "y">>
T_xyz == <<"x", "y", "z">>
T_kertas == <<"k", "e", "r", "t", "a", "s">>
T_gaji_bus == <<"g", "a", "j", "i", " ", "b", "u", "s">>
T_food == <<"f", "o", "o", "d">>
T_salary_spaced == <<" ", "s", "a", "l", "a", "r", "y", " ">>
T_makan_siang == <<"m", "a", "k", "a", "n", " ", "s", "i", "a", "n", "g">>

\* Categories handed to Transaction: every value of the enumeration, every
\* keyword of the mapping, texts that hold a keyword in either case or hold
\* none, the empty text, and values that are no text
CategoryInputs ==
    {StrV(CategoryValues[i]) : i \in 1..Len(CategoryValues)}
    \cup {StrV(CategoryMapping[i].keyword) : i \in 1..Len(CategoryMapping)}
    \cup {StrV(T_BeliBensin), StrV(T_GajiBulanan), StrV(T_Salary), StrV(T_xyz),
          StrV(T_kertas), StrV(T_gaji_bus), StrV(T_food), StrV(T_salary_spaced),
          StrV(T_makan_siang), StrV(<<>>), NoneV, IntV(5)}

InitCategory ==
    /\ StoreAtRest
    /\ fnArg \in CategoryInputs
    /\ fnRet = None

\* self._validate_category(kategori)
ValidateCategory ==
    /\ fnRet = None
    /\ fnRet' = Some(_validate_category(fnArg))
    /\ UNCHANGED <<connected, worksheets, dashboard, last, nFaults, fnArg>>

SpecCategory == InitCategory /\ [][ValidateCategory]_vars

IsCategory(text) == \E i \in 1..Len(CategoryValues) : CategoryValues[i] = text

\* The categories of the keywords found in text, whatever its case
MatchedCategories(text) ==
    {CategoryMapping[i].category : i \in {j \in 1..Len(CategoryMapping) :
                                            Contains(Lower(text), CategoryMapping[j].keyword)}}

\* C22: the category Transaction keeps is always a value of the enumeration: the
\* input itself when it is one, else the category of a keyword found in it, else
\* "other_expense"; an input that is no text gives "other_expense".
C22_CategoryNormalized ==
    fnRet.some =>
        /\ IsCategory(fnRet.v)
        /\ fnArg.t # "str" => fnRet.v = C_other_expense
        /\ fnArg.t = "str" =>
              IF IsCategory(fnArg.s) THEN fnRet.v = fnArg.s
              ELSE IF MatchedCategories(fnArg.s) # {}
                   THEN fnRet.v \in MatchedCategories(fnArg.s)
                   ELSE fnRet.v = C_other_expense

\* A text that is no value of the enumeration was mapped by a keyword it holds in
\* capitals
C22_KeywordMapped ==
    /\ fnArg = StrV(T_BeliBensin)
    /\ fnRet = Some(C_transportation)

-----------------------------------------------------------------------------
(* The monthly table of a recompute, stated over SpecMonthly *)

MaxParts == 2

N_7_25 == <<"7", "/", "2", "5">>

\* Monthly partitions: June 2025 with an income and an expense, July 2025 and
\* June 2024 with one expense each, December 2024 with its header row only
PartSheets ==
    {[title |-> N_6_25,
      rows |-> <<headers,
                 <<D_2025_06_10, C_salary, Dash, NatToStr(5000000), <<>>>>,
                 <<D_2025_06_10, C_food, Dash, <<>>, NatToStr(50000)>>>>],
     [title |-> N_7_25,
      rows |-> <<headers,
                 <<D_2025_07_01, C_transportation, Dash, <<>>, NatToStr(150000)>>>>],
     [title |-> N_6_24,
      rows |-> <<headers, <<D_2024_06_05, C_food, Dash, <<>>, NatToStr(50000)>>>>],
     [title |-> N_12_24, rows |-> <<headers>>]}

\* The spreadsheets of at most MaxParts of these partitions, in any order
PartLists ==
    {ws \in UNION {[1..n -> PartSheets] : n \in 0..MaxParts} :
        \A i, j \in 1..Len(ws) : ws[i].title = ws[j].title => i = j}

\* What the year selector C1 may hold: a year with partitions, the current year,
\* a year without partitions, nothing, and texts that are no number
SelectorTexts ==
    {NatToStr(2024), NatToStr(2025), NatToStr(2023), <<>>,
     <<"a", "b", "c">>, <<"2", "0", "x", "4">>, <<" ", "2", "0", "2", "4">>}

\* A monthly table left by an earlier recompute, every row filled
StaleTable == [m \in 1..12 |-> <<IntV(9), IntV(4), IntV(5)>>]

InitMonthly ==
    /\ connected = TRUE
    /\ worksheets \in PartLists
    /\ dashboard \in {Some([NewDashboard EXCEPT !.C1 = c1, !.table = table]) :
                        c1 \in SelectorTexts, table \in {BlankRegions.table, StaleTable}}
    /\ last = [op |-> "start"]
    /\ nFaults = 0
    /\ fnArg = dashboard.v
    /\ fnRet = None

\* sheets_service.update_dashboard_data(), no backend call failing; fnArg keeps
\* the dashboard as it was before
RecomputeMonthly ==
    /\ fnRet = None
    /\ \E u \in {UpdateResult("none")} :
           /\ connected' = u.connected
           /\ dashboard' = u.dashboard
           /\ fnRet' = Some(u.ret)
    /\ UNCHANGED <<worksheets, last, nFaults, fnArg>>

SpecMonthly == InitMonthly /\ [][RecomputeMonthly]_vars

\* The year the selector names: its integer when it is all digits, else the
\* current year
SelectedYear(c1) ==
    IF Len(c1) > 0 /\ \A i \in 1..Len(c1) : c1[i] \in Digit
    THEN DigitsToNat(c1) ELSE CurrentYear

\* The title of the partition of (month, year)
PartitionTitle(month, year) == NatToStr(month) \o <<"/">> \o YearSuffix(year)

\* The (income, expense, net) triple of the rows of one partition
TripleOf(rows) ==
    <<IntV(_get_sheet_summary(rows).total_income),
      IntV(_get_sheet_summary(rows).total_expenditure),
      IntV(_get_sheet_summary(rows).total_income
            - _get_sheet_summary(rows).total_expenditure)>>

\* C23: after update_dashboard_data(), row m of the monthly table, for each month
\* 1..12, holds the (income, expense, net) triple of the partition of month m of
\* the selected year, or three blanks when there is no such partition, whatever
\* the table held before; the selected year is the integer in C1, or the current
\* year when C1 is blank or no number.
C23_MonthlyTableRecomputed ==
    fnRet = Some(TRUE) =>
        \A m \in 1..12 :
            dashboard.v.table[m] =
                IF SheetIndex(worksheets, PartitionTitle(m, SelectedYear(fnArg.C1))) # 0
                THEN TripleOf(RowsOf(worksheets,
                                     PartitionTitle(m, SelectedYear(fnArg.C1))))
                ELSE <<Blank, Blank, Blank>>

\* A recompute for the selected year 2024 has filled the row of June from its
\* partition and cleared the stale row of July, whose partition is of 2025
C23_StaleRowCleared ==
    /\ fnRet = Some(TRUE)
    /\ fnArg.C1 = NatToStr(2024)
    /\ fnArg.table = StaleTable
    /\ SheetIndex(worksheets, N_6_24) # 0
    /\ SheetIndex(worksheets, N_7_25) # 0
    /\ dashboard.v.table[6] = <<IntV(0), IntV(50000), IntV(0 - 50000)>>
    /\ dashboard.v.table[7] = <<Blank, Blank, Blank>>

-----------------------------------------------------------------------------
(* The annual totals against the monthly table, stated over SpecTotals *)

\* Sheets a user may add by hand: June 2025 once more under a name with a
\* leading zero, and a sheet named for a month 13
HandMadeSheets ==
    {[title |-> N_06_25,
      rows |-> <<headers, <<D_2025_06_10, C_salary, Dash, NatToStr(700), <<>>>>>>],
     [title |-> N_13_25,
      rows |-> <<headers, <<D_2025_06_10, C_food, Dash, <<>>, NatToStr(300)>>>>]}

\* The spreadsheets of at most MaxParts sheets, the bot's own or made by hand
SheetSets ==
    {ws \in UNION {[1..n -> PartSheets \cup HandMadeSheets] : n \in 0..MaxParts} :
        \A i, j \in 1..Len(ws) : ws[i].title = ws[j].title => i = j}

InitTotals ==
    /\ connected = TRUE
    /\ worksheets \in SheetSets
    /\ dashboard \in {Some([NewDashboard EXCEPT !.C1 = c1]) :
                        c1 \in {NatToStr(2025), NatToStr(2024), <<>>}}
    /\ last = [op |-> "start"]
    /\ nFaults = 0
    /\ fnArg = dashboard.v
    /\ fnRet = None

SpecTotals == InitTotals /\ [][RecomputeMonthly]_vars

\* The sum of column col of rows m..12 of the monthly table, a blank counting 0
RECURSIVE TableSum(_, _, _)
TableSum(table, m, col) ==
    IF m > 12 THEN 0
    ELSE (IF table[m][col].t = "int" THEN table[m][col].n ELSE 0)
         + TableSum(table, m + 1, col)

\* C26: after a recompute all of whose sub-steps succeeded, whatever sheets the
\* spreadsheet holds, F3 is the sum of the income column of the monthly table, F5
\* the sum of its expense column, and F7 = F3 - F5.
C26_TotalsMatchTable ==
    fnRet = Some(TRUE) =>
        /\ dashboard.v.F3 = IntV(TableSum(dashboard.v.table, 1, 1))
        /\ dashboard.v.F5 = IntV(TableSum(dashboard.v.table, 1, 2))
        /\ dashboard.v.F7 = IntV(dashboard.v.F3.n - dashboard.v.F5.n)

-----------------------------------------------------------------------------
(* From a date to its partition and back, stated over SpecRoundTrip *)

\* Dates of the years 2000..2099: the first and the last year, two neighbouring
\* years, months of one and of two digits
RoundTripDates ==
    [year : {2000, 2024, 2025, 2099}, month : {1, 2, 10, 12}, day : {1, 15}]

Pad2(n) == IF n < 10 THEN <<"0">> \o NatToStr(n) ELSE NatToStr(n)

\* date.strftime('%Y-%m-%d')
DateText(date) ==
    NatToStr(date.year) \o <<"-">> \o Pad2(date.month) \o <<"-">> \o Pad2(date.day)

\* The row of an expense of the given amount on the given date
ExpenseRow(date, amount) ==
    (K_Tanggal :> StrV(DateText(date))) @@ (K_Kategori :> StrV(C_food))
    @@ (K_Deskripsi :> StrV(Dash)) @@ (K_Pemasukan :> StrV(<<>>))
    @@ (K_Pengeluaran :> IntV(amount))

InitRoundTrip ==
    /\ connected = TRUE
    /\ worksheets = <<>>
    /\ dashboard = Some(NewDashboard)
    /\ last = [op |-> "start"]
    /\ nFaults = 0
    /\ fnArg \in [first : RoundTripDates, second : RoundTripDates]
    /\ fnRet = None

\* add_transaction() for an expense of 100 on the first date, add_transaction()
\* for an expense of 200 on the second, then get_monthly_sheets()
RecordBoth ==
    /\ fnRet = None
    /\ \E r1 \in {add_transaction(ExpenseRow(fnArg.first, 100), connected,
                                  worksheets, dashboard, "none")} :
         \E r2 \in {add_transaction(ExpenseRow(fnArg.second, 200), r1.connected,
                                    r1.worksheets, r1.dashboard, "none")} :
           /\ connected' = r2.connected
           /\ worksheets' = r2.worksheets
           /\ dashboard' = r2.dashboard
           /\ last' = [op |-> "add_transaction", result |-> r2.result]
           /\ fnRet' = Some(get_monthly_sheets(r2.worksheets))
    /\ UNCHANGED <<nFaults, fnArg>>

SpecRoundTrip == InitRoundTrip /\ [][RecordBoth]_vars

SameMonth(a, b) == a.month = b.month /\ a.year = b.year

\* monthly_data has one entry for the month and year of date, whose expenses
\* come to total
AggregatedUnder(monthly_data, date, total) ==
    /\ Cardinality({i \in 1..Len(monthly_data) :
                        /\ monthly_data[i].month = date.month
                        /\ monthly_data[i].year = date.year}) = 1
    /\ \E i \in 1..Len(monthly_data) :
          /\ monthly_data[i].month = date.month
          /\ monthly_data[i].year = date.year
          /\ monthly_data[i].data.total_expenditure = total

\* C28: two transactions recorded through add_transaction() on dates of the
\* years 2000..2099 are in one partition if and only if their dates share month
\* and year, and get_monthly_sheets() resolves the name of the partition of each
\* to the month and the year of its date, with its amount in that entry.
C28_NameRoundTrip ==
    fnRet.some =>
        /\ last.result = "True"
        /\ (Len(worksheets) = 1) <=> SameMonth(fnArg.first, fnArg.second)
        /\ Len(fnRet.v) = Len(worksheets)
        /\ AggregatedUnder(fnRet.v, fnArg.first,
                IF SameMonth(fnArg.first, fnArg.second) THEN 300 ELSE 100)
        /\ AggregatedUnder(fnRet.v, fnArg.second,
                IF SameMonth(fnArg.first, fnArg.second) THEN 300 ELSE 200)

\* October of 2000 and October of 2099 have been recorded and resolved as two
\* partitions
C28_CenturyEndsApart ==
    /\ fnRet.some
    /\ fnArg.first = [year |-> 2000, month |-> 10, day |-> 1]
    /\ fnArg.second = [year |-> 2099, month |-> 10, day |-> 15]
    /\ Len(fnRet.v) = 2
    /\ fnRet.v[1].year = 2000 /\ fnRet.v[1].month = 10
    /\ fnRet.v[2].year = 2099 /\ fnRet.v[2].month = 10

-----------------------------------------------------------------------------
(* Two add_transaction calls on one spreadsheet, one step per backend call,
   stated over SpecRace *)

\* The two calls: two processes that hold handles on the same spreadsheet
Callers == {1, 2}

\* What the first call records, and what the second may record: the same month
\* or the next one
RaceFirst == SheetRow(Tx(D_2025_06_10, J_pengeluaran, C_transportation, 150000))
RaceSecond ==
    {SheetRow(Tx(D_2025_06_10, J_pengeluaran, C_food, 50000)),
     SheetRow(Tx(D_2025_07_01, J_pengeluaran, C_food, 50000))}

\* The partitions the spreadsheet holds before the two calls: none, or June 2025
\* with one row
RaceSheets ==
    {<<>>,
     <<[title |-> <<"6", "/", "2", "5">>,
        rows |-> <<headers,
                   new_row(headers,
                           SheetRow(Tx(D_2025_06_10, J_pemasukan, C_salary,
                                       2000000)))>>]>>}

\* A call before its first backend call: no header row read, no partitions read
CallStart == [pc |-> "lookup", headers |-> <<>>, monthly_sheets_data |-> <<>>]

\* fnArg: the transaction of each call and the partitions held at the start;
\* fnRet: each call's position, the header row it read and the partitions it read
InitRace ==
    /\ connected = TRUE
    /\ worksheets \in RaceSheets
    /\ dashboard = Some(OldDashboard(DefaultC1, "June"))
    /\ last = [op |-> "start"]
    /\ nFaults = 0
    /\ \E second \in RaceSecond :
          fnArg = [transaction_data |-> <<RaceFirst, second>>, held |-> worksheets]
    /\ fnRet = [p \in Callers |-> CallStart]

\* The title call p files its row under
RaceSheet(p) == TargetSheet(fnArg.transaction_data[p]).v

At(p, pc) == fnRet[p].pc = pc
Goto(p, pc) == fnRet' = [fnRet EXCEPT ![p].pc = pc]
StoreKept == UNCHANGED <<connected, worksheets, dashboard, last, nFaults, fnArg>>
SheetsWritten == UNCHANGED <<connected, dashboard, last, nFaults, fnArg>>
DashboardWritten == UNCHANGED <<connected, worksheets, last, nFaults, fnArg>>

\* get_or_create_sheet: spreadsheet.worksheet(sheet_name)
Lookup(p) ==
    /\ At(p, "lookup")
    /\ Goto(p, IF SheetIndex(worksheets, RaceSheet(p)) # 0 THEN "row_values"
               ELSE "add_worksheet")
    /\ StoreKept

\* get_or_create_sheet: spreadsheet.add_worksheet(title=sheet_name), which the
\* backend refuses when a sheet of that title exists; the error leaves
\* get_or_create_sheet and add_transaction
AddWorksheet(p) ==
    /\ At(p, "add_worksheet")
    /\ IF SheetIndex(worksheets, RaceSheet(p)) # 0
       THEN /\ Goto(p, "raised")
            /\ UNCHANGED worksheets
       ELSE /\ worksheets' = Append(worksheets, [title |-> RaceSheet(p), rows |-> <<>>])
            /\ Goto(p, "append_headers")
    /\ SheetsWritten

\* get_or_create_sheet: worksheet.append_row(headers) on the sheet it created
AppendHeaders(p) ==
    /\ At(p, "append_headers")
    /\ worksheets' = [worksheets EXCEPT ![SheetIndex(worksheets, RaceSheet(p))].rows =
                                            append_row(@, headers)]
    /\ Goto(p, "row_values")
    /\ SheetsWritten

\* add_transaction: headers = worksheet.row_values(1)
RowValues(p) ==
    /\ At(p, "row_values")
    /\ LET found == row_values_1(worksheets[SheetIndex(worksheets, RaceSheet(p))].rows)
       IN  fnRet' = [fnRet EXCEPT
                        ![p].headers = IF Len(found) = 0 THEN headers ELSE found,
                        ![p].pc = IF Len(found) = 0 THEN "recreate_headers"
                                  ELSE "append_row"]
    /\ StoreKept

\* add_transaction: worksheet.append_row(headers) when row 1 was read empty
RecreateHeaders(p) ==
    /\ At(p, "recreate_headers")
    /\ worksheets' = [worksheets EXCEPT ![SheetIndex(worksheets, RaceSheet(p))].rows =
                                            append_row(@, headers)]
    /\ Goto(p, "append_row")
    /\ SheetsWritten

\* add_transaction: worksheet.append_row(new_row)
AppendRow(p) ==
    /\ At(p, "append_row")
    /\ worksheets' = [worksheets EXCEPT ![SheetIndex(worksheets, RaceSheet(p))].rows =
                          append_row(@, new_row(fnRet[p].headers,
                                                fnArg.transaction_data[p]))]
    /\ Goto(p, "get_monthly_sheets")
    /\ SheetsWritten

\* update_dashboard_data: monthly_sheets_data = self.get_monthly_sheets(), the
\* reads of all partitions taken as one step
ReadPartitions(p) ==
    /\ At(p, "get_monthly_sheets")
    /\ \E monthly_data \in {get_monthly_sheets(worksheets)} :
          fnRet' = [fnRet EXCEPT ![p].monthly_sheets_data = monthly_data,
                                 ![p].pc = "monthly_summary"]
    /\ StoreKept

\* _update_monthly_summary: dashboard.update('B3:D14', ...)
UpdateMonthlySummary(p) ==
    /\ At(p, "monthly_summary")
    /\ dashboard' = Some([dashboard.v EXCEPT !.table =
                            MonthlyPayload(fnRet[p].monthly_sheets_data,
                                           TargetYear(dashboard.v.C1))])
    /\ Goto(p, "annual_totals")
    /\ DashboardWritten

\* _update_annual_totals: dashboard.batch_update of F3, F5 and F7
UpdateAnnualTotals(p) ==
    /\ At(p, "annual_totals")
    /\ \E a \in {AnnualTotals(fnRet[p].monthly_sheets_data,
                              TargetYear(dashboard.v.C1))} :
          dashboard' = Some([dashboard.v EXCEPT !.F3 = a.F3, !.F5 = a.F5,
                                                !.F7 = a.F7])
    /\ Goto(p, "top_annual")
    /\ DashboardWritten

\* _update_top_expenditures: dashboard.update('B18:C22', annual_payload)
UpdateTopAnnual(p) ==
    /\ At(p, "top_annual")
    /\ dashboard' = Some([dashboard.v EXCEPT !.top_annual =
                            TopPayload(AllCategoriesAnnual(
                                fnRet[p].monthly_sheets_data,
                                TargetYear(dashboard.v.C1)))])
    /\ Goto(p, "top_monthly")
    /\ DashboardWritten

\* _update_top_expenditures: dashboard.update('B26:C30', monthly_payload); the
\* call returns True
UpdateTopMonthly(p) ==
    /\ At(p, "top_monthly")
    /\ dashboard' = Some([dashboard.v EXCEPT !.top_monthly =
                            TopPayload(MonthlyCategories(
                                fnRet[p].monthly_sheets_data, dashboard.v.C24,
                                TargetYear(dashboard.v.C1)))])
    /\ Goto(p, "True")
    /\ DashboardWritten

NextRace ==
    \E p \in Callers :
        \/ Lookup(p)
        \/ AddWorksheet(p)
        \/ AppendHeaders(p)
        \/ RowValues(p)
        \/ RecreateHeaders(p)
        \/ AppendRow(p)
        \/ ReadPartitions(p)
        \/ UpdateMonthlySummary(p)
        \/ UpdateAnnualTotals(p)
        \/ UpdateTopAnnual(p)
        \/ UpdateTopMonthly(p)

SpecRace == InitRace /\ [][NextRace]_vars

\* Both calls have ended, by returning True or by raising
BothFinished == \A p \in Callers : fnRet[p].pc \in {"True", "raised"}

\* The derived regions of the dashboard cells d
DerivedOf(d) ==
    [table |-> d.table, F3 |-> d.F3, F5 |-> d.F5, F7 |-> d.F7,
     top_annual |-> d.top_annual, top_monthly |-> d.top_monthly]

\* The derived regions one recompute writes from the partitions it read, under
\* the selectors c1 and c24
RegionsFrom(monthly_data, c1, c24) ==
    LET Regions(target_year, a) ==
            [table |-> MonthlyPayload(monthly_data, target_year),
             F3 |-> a.F3, F5 |-> a.F5, F7 |-> a.F7,
             top_annual |-> TopPayload(AllCategoriesAnnual(monthly_data, target_year)),
             top_monthly |->
                 TopPayload(MonthlyCategories(monthly_data, c24, target_year))]
        Under(target_year) ==
            Regions(target_year, AnnualTotals(monthly_data, target_year))
    IN  Under(TargetYear(c1))

\* C29: once two interleaved add_transaction() calls have both returned, the
\* derived regions of the dashboard are together the output of one recompute:
\* monthly table, annual totals and both top-5 tables are all computed from the
\* partitions that one of the two calls read.
C29_OneRecomputeWins ==
    (\A p \in Callers : fnRet[p].pc = "True") =>
        \E p \in Callers :
            DerivedOf(dashboard.v) =
                RegionsFrom(fnRet[p].monthly_sheets_data, dashboard.v.C1,
                            dashboard.v.C24)

\* C30: once two interleaved add_transaction() calls for one partition that did
\* not exist have both ended, both have returned True, one sheet has the
\* partition's title, its first row is the header row and no other row is, and
\* the row of each call is among its data rows.
C30_BothFirstWritesLand ==
    (BothFinished /\ fnArg.held = <<>> /\ RaceSheet(1) = RaceSheet(2)) =>
        /\ \A p \in Callers : fnRet[p].pc = "True"
        /\ Cardinality({i \in 1..Len(worksheets) :
                            worksheets[i].title = RaceSheet(1)}) = 1
        /\ Len(RowsOf(worksheets, RaceSheet(1))) >= 1
        /\ RowsOf(worksheets, RaceSheet(1))[1] = headers
        /\ Cardinality({i \in 1..Len(RowsOf(worksheets, RaceSheet(1))) :
                            RowsOf(worksheets, RaceSheet(1))[i] = headers}) = 1
        /\ \A p \in Callers :
              \E i \in 2..Len(RowsOf(worksheets, RaceSheet(1))) :
                  RowsOf(worksheets, RaceSheet(1))[i] =
                      new_row(headers, fnArg.transaction_data[p])

====
